---- MODULE Spec2Model ----
(***************************************************************************)
(* forge-e2e: case extraction (src/types.rs), the load of a tests          *)
(* directory and the three execution strategies of the test runner         *)
(* (src/runner.rs), the headless run (src/main.rs) and the conversion by   *)
(* the spreadsheet engine (src/engine.rs).                                 *)
(*                                                                         *)
(* Strings are sequences of one-character strings, so that format!,        *)
(* starts_with, split and parse are computed and not assumed.              *)
(* Option<T> is a sequence of length at most one: None == <<>>,            *)
(* Some(v) == <<v>>.                                                       *)
(***************************************************************************)
EXTENDS Integers, Sequences, FiniteSets, TLC

VARIABLES
    spec,        \* the parsed TestSpec handed to the extractors
    cases,       \* Vec<TestCase> returned by extract_test_cases
    skips,       \* Vec<SkipCase> returned by extract_skip_cases
    epc,         \* position of the extraction: "parsed", "cases", "done"
    test_cases,  \* TestRunner::test_cases
    skip_cases,  \* TestRunner::skip_cases
    mode,        \* the method called: "normal" (run_all), "perf", "batch"
    rpc,         \* position of the call: "idle", "running", "returned"
    results,     \* the Vec<TestResult> being built, then returned
    idx,         \* run_all: the number of cases already run
    slots,       \* run_perf_parallel: the result of each evaluated case
    completed,   \* run_perf_parallel: the cases in the order they completed
    envs,        \* what the environment answered to the pipeline of each case
    benv,        \* what the environment answered to the batch pipeline
    calls,       \* the subject and oracle invocations issued so far
    dir,         \* the tests directory given to load_test_cases
    lpc,         \* position of the load: "start", "reading", "ok", "err"
    todo,        \* load_test_cases: the entries read_dir has not yielded yet
    all_cases,   \* load_test_cases: all_cases
    all_skips,   \* load_test_cases: all_skips
    warnings,    \* the files for which a parse warning was printed
    load_err,    \* the error load_test_cases returned, if any
    loads,       \* the <<cases, skips>> returned by the loads completed before
    engine,      \* what SpreadsheetEngine::detect() finds
    binary,      \* whether cli.binary exists
    mpc,         \* position of main
    total_failed,\* run_all_mode: total_failed
    ran,         \* the results returned by the modes run so far
    exit_code,   \* the ExitCode main returned
    kind,        \* xlsx_to_csv: the variant of self
    cpc,         \* position of the conversion
    lo_proc,     \* the spawned LibreOffice process
    attempts,    \* wait_for_port: the connection attempts that failed
    csv_file,    \* whether csv_path exists
    cenv,        \* what the environment answered to the conversion steps
    cresult,     \* what xlsx_to_csv returned
    app,         \* the App of the terminal interface
    op,          \* the App method called last, with its argument
    before,      \* the App as it was when that method was called
    monolith,    \* whether the terminal interface is that of tui.rs
    tpc,         \* position of run_app
    perf_mode,   \* run_app: perf_mode
    batch_mode,  \* run_app: batch_mode
    keys,        \* the terminal events delivered and not read yet
    observed,    \* the number of commands issued when 'q' ended a run
    reruns,      \* the reruns asked for so far
    tui_ret      \* what tui::run returned

evars == <<spec, cases, skips, epc>>

rvars == <<test_cases, skip_cases, mode, rpc, results, idx, slots, completed,
           envs, benv, calls>>

lvars == <<dir, lpc, todo, all_cases, all_skips, warnings, load_err, loads>>

mvars == <<engine, binary, mpc, total_failed, ran, exit_code>>

cvars == <<kind, cpc, lo_proc, attempts, csv_file, cenv, cresult>>

avars == <<app, op, before>>

tvars == <<monolith, tpc, perf_mode, batch_mode, keys, observed, reruns,
           tui_ret>>

vars == <<evars, rvars, lvars, mvars, cvars, avars, tvars>>

\* ------------------------------------------------------------------------
\* Option
\* ------------------------------------------------------------------------
None == <<>>

Some(v) == <<v>>

is_some(o) == Len(o) > 0

unwrap(o) == o[1]

\* ------------------------------------------------------------------------
\* str and number parsing (std), on sequences of characters
\* ------------------------------------------------------------------------
Digits == <<"0", "1", "2", "3", "4", "5", "6", "7", "8", "9">>

IsDigit(c) == \E d \in 1..10 : Digits[d] = c

DigitVal(c) == (CHOOSE d \in 1..10 : Digits[d] = c) - 1

\* str::strip_prefix: Some(rest) when s begins with p.
strip_prefix(s, p) ==
    IF Len(s) >= Len(p) /\ SubSeq(s, 1, Len(p)) = p
    THEN Some(SubSeq(s, Len(p) + 1, Len(s)))
    ELSE None

\* Option::or_else
or_else(o, alt) == IF is_some(o) THEN o ELSE alt

\* str::split(sep): the pieces between the occurrences of sep (always at
\* least one piece).
RECURSIVE split(_, _)
split(s, sep) ==
    IF \A i \in 1..Len(s) : s[i] # sep THEN << s >>
    ELSE LET i == CHOOSE j \in 1..Len(s) :
                      s[j] = sep /\ \A k \in 1..(j - 1) : s[k] # sep
         IN  << SubSeq(s, 1, i - 1) >> \o split(SubSeq(s, i + 1, Len(s)), sep)

\* str::trim_matches(c): c removed from both ends, repeatedly.
RECURSIVE trim_matches(_, _)
trim_matches(s, c) ==
    IF Len(s) > 0 /\ s[1] = c THEN trim_matches(Tail(s), c)
    ELSE IF Len(s) > 0 /\ s[Len(s)] = c
    THEN trim_matches(SubSeq(s, 1, Len(s) - 1), c)
    ELSE s

\* str::trim: white space removed from both ends.
trim(s) == trim_matches(s, " ")

\* str::replace(from, ""): every occurrence of the character removed.
RECURSIVE remove_char(_, _)
remove_char(s, c) ==
    IF s = <<>> THEN <<>>
    ELSE (IF Head(s) = c THEN <<>> ELSE << Head(s) >>) \o remove_char(Tail(s), c)

\* The value of a run of decimal digits.
RECURSIVE DigitsValue(_)
DigitsValue(s) ==
    IF s = <<>> THEN 0
    ELSE DigitsValue(SubSeq(s, 1, Len(s) - 1)) * 10 + DigitVal(s[Len(s)])

AllDigits(s) == \A i \in 1..Len(s) : IsDigit(s[i])

\* Result<T, E>: ok tells the variant; v is the Ok value, e the Err value.
Ok(v) == [ok |-> TRUE, v |-> v, e |-> ""]

Err(e) == [ok |-> FALSE, v |-> <<>>, e |-> e]

\* An Err of a numeric Result.
ErrNum(e) == [ok |-> FALSE, v |-> 0, e |-> e]

\* Ok(()), and Ok of a value the model does not look at.
OkUnit == Ok(<<>>)

\* str::parse::<usize>: an optional '+' and one or more digits.
parse_usize(s) ==
    LET body == IF Len(s) > 0 /\ s[1] = "+" THEN Tail(s) ELSE s
    IN  IF body = <<>> THEN ErrNum("cannot parse integer from empty string")
        ELSE IF AllDigits(body) THEN Ok(DigitsValue(body))
        ELSE ErrNum("invalid digit found in string")

\* Numbers are multiples of 10^-FracDigits, counted in that unit.
FracDigits == 5

RECURSIVE Pow10(_)
Pow10(n) == IF n = 0 THEN 1 ELSE 10 * Pow10(n - 1)

Scale == Pow10(FracDigits)

Abs(x) == IF x < 0 THEN -x ELSE x

\* str::parse::<f64> on decimal literals: an optional sign, digits, and an
\* optional point followed by at most FracDigits digits.
parse_f64(s) ==
    LET neg == Len(s) > 0 /\ s[1] = "-"
        body == IF Len(s) > 0 /\ s[1] \in {"-", "+"} THEN Tail(s) ELSE s
        parts == split(body, ".")
        int == parts[1]
        frac == IF Len(parts) = 2 THEN parts[2] ELSE <<>>
        mag == DigitsValue(int) * Scale
                 + DigitsValue(frac) * Pow10(FracDigits - Len(frac))
    IN  IF s = <<>> THEN ErrNum("cannot parse float from empty string")
        ELSE IF /\ Len(parts) <= 2
                /\ AllDigits(int) /\ AllDigits(frac)
                /\ Len(int) + Len(frac) > 0
                /\ Len(frac) <= FracDigits
        THEN Ok(IF neg THEN -mag ELSE mag)
        ELSE ErrNum("invalid float literal")

\* ------------------------------------------------------------------------
\* Bounds of the extraction inputs
\* ------------------------------------------------------------------------
MaxScalars == 2

Scenarios == <<"s", "c", "e", "n", "a", "r", "i", "o", "s">>

Formulas == { <<"=", "1">> }

Reasons == { <<"r">> }

ScalarSet ==
    [ value    : {None, Some(1)},
      formula  : {None} \cup {Some(f) : f \in Formulas},
      expected : {None, Some(1)},
      skip     : {None} \cup {Some(r) : r \in Reasons} ]

\* The <<section, case id>> pairs a specification may define.  The first two
\* format to the same name.
Keys ==
    { << <<"a">>, <<"b", ".", "c">> >>,
      << <<"a", ".", "b">>, <<"c">> >>,
      << <<"a">>, <<"c">> >>,
      << <<"_", "m">>, <<"c">> >>,
      << Scenarios, <<"c">> >> }

\* The sections that may be tables.
TableNames == { <<"a", ".", "b">> }

\* ------------------------------------------------------------------------
\* types.rs: TestSpec, Section, TestCase, SkipCase
\* ------------------------------------------------------------------------
ScalarGroup(scalars) == [kind |-> "ScalarGroup", scalars |-> scalars]

Table == [kind |-> "Table", scalars |-> <<>>]

TestCase(name, formula, expected) ==
    [name |-> name, formula |-> formula, expected |-> expected]

SkipCase(name, reason) == [name |-> name, reason |-> reason]

\* The TestSpec whose scalar entries are the function f (keyed by
\* <<section, case id>>) and whose sections in t are tables.
MkSpec(f, t) ==
    [ s \in {k[1] : k \in DOMAIN f} \cup t |->
        IF s \in t
        THEN Table
        ELSE ScalarGroup([ id \in {k[2] : k \in {k2 \in DOMAIN f : k2[1] = s}}
                             |-> f[<<s, id>>] ]) ]

KeySets == {K \in SUBSET Keys : Cardinality(K) <= MaxScalars}

\* Every enumeration order of a finite set (HashMap iteration order is
\* unspecified).
RECURSIVE Orders(_)
Orders(S) ==
    IF S = {} THEN { <<>> }
    ELSE UNION { { <<x>> \o o : o \in Orders(S \ {x}) } : x \in S }

\* ------------------------------------------------------------------------
\* types.rs: extraction
\* ------------------------------------------------------------------------
starts_with(s, c) == Len(s) > 0 /\ s[1] = c

\* format!("{section_name}.{name}")
format_name(section_name, name) == section_name \o <<".">> \o name

IsNonTestSection_NoScenarios(section_name) == starts_with(section_name, "_")

IsNonTestSection_NoUnderscore(section_name) == section_name = Scenarios

\* section_name.starts_with('_') || section_name == "scenarios"
IsNonTestSection(section_name) ==
    starts_with(section_name, "_") \/ section_name = Scenarios

ScalarTestCase_IgnoreSkip(section_name, name, scalar) ==
    IF is_some(scalar.formula) /\ is_some(scalar.expected)
    THEN << TestCase(format_name(section_name, name),
                     unwrap(scalar.formula), unwrap(scalar.expected)) >>
    ELSE <<>>

ScalarTestCase_FormulaOnly(section_name, name, scalar) ==
    IF is_some(scalar.skip) THEN <<>>
    ELSE IF is_some(scalar.formula)
    THEN << TestCase(format_name(section_name, name), unwrap(scalar.formula),
                     IF is_some(scalar.expected) THEN unwrap(scalar.expected)
                     ELSE 0) >>
    ELSE <<>>

\* Body of the inner loop of extract_test_cases: what one scalar pushes.
ScalarTestCase(section_name, name, scalar) ==
    IF is_some(scalar.skip) THEN <<>>
    ELSE IF is_some(scalar.formula) /\ is_some(scalar.expected)
    THEN << TestCase(format_name(section_name, name),
                     unwrap(scalar.formula), unwrap(scalar.expected)) >>
    ELSE <<>>

\* Body of the inner loop of extract_skip_cases.
ScalarSkipCase(section_name, name, scalar) ==
    IF is_some(scalar.skip)
    THEN << SkipCase(format_name(section_name, name), unwrap(scalar.skip)) >>
    ELSE <<>>

\* The inner loop over one ScalarGroup, visiting the case ids in order ids.
RECURSIVE SectionTestCases(_, _, _)
SectionTestCases(section_name, scalars, ids) ==
    IF ids = <<>> THEN <<>>
    ELSE ScalarTestCase(section_name, Head(ids), scalars[Head(ids)])
         \o SectionTestCases(section_name, scalars, Tail(ids))

RECURSIVE SectionSkipCases(_, _, _)
SectionSkipCases(section_name, scalars, ids) ==
    IF ids = <<>> THEN <<>>
    ELSE ScalarSkipCase(section_name, Head(ids), scalars[Head(ids)])
         \o SectionSkipCases(section_name, scalars, Tail(ids))

\* extract_test_cases, the sections visited in order secs and the scalars
\* of section s in order ids[s].
RECURSIVE extract_test_cases(_, _, _)
extract_test_cases(sp, secs, ids) ==
    IF secs = <<>> THEN <<>>
    ELSE LET section_name == Head(secs)
             section == sp[section_name]
             rest == extract_test_cases(sp, Tail(secs), ids)
         IN  IF IsNonTestSection(section_name) THEN rest
             ELSE IF section.kind = "ScalarGroup"
             THEN SectionTestCases(section_name, section.scalars,
                                   ids[section_name]) \o rest
             ELSE rest

RECURSIVE extract_skip_cases(_, _, _)
extract_skip_cases(sp, secs, ids) ==
    IF secs = <<>> THEN <<>>
    ELSE LET section_name == Head(secs)
             section == sp[section_name]
             rest == extract_skip_cases(sp, Tail(secs), ids)
         IN  IF IsNonTestSection(section_name) THEN rest
             ELSE IF section.kind = "ScalarGroup"
             THEN SectionSkipCases(section_name, section.scalars,
                                   ids[section_name]) \o rest
             ELSE rest

\* The iteration orders a TestSpec admits.
SectionOrders(sp) == Orders(DOMAIN sp)

ScalarOrders(sp) ==
    { ids \in [DOMAIN sp -> UNION {Orders(DOMAIN sp[s].scalars) : s \in DOMAIN sp}] :
        \A s \in DOMAIN sp : Len(ids[s]) = Cardinality(DOMAIN sp[s].scalars)
                              /\ {ids[s][i] : i \in 1..Len(ids[s])} = DOMAIN sp[s].scalars }

\* ------------------------------------------------------------------------
\* The states of the part that a specification leaves alone
\* ------------------------------------------------------------------------
ExtractIdle ==
    /\ spec = <<>>
    /\ cases = <<>>
    /\ skips = <<>>
    /\ epc = "off"

RunnerIdle ==
    /\ test_cases = <<>>
    /\ skip_cases = <<>>
    /\ mode = "none"
    /\ rpc = "off"
    /\ results = <<>>
    /\ idx = 0
    /\ slots = <<>>
    /\ completed = <<>>
    /\ envs = <<>>
    /\ benv = None
    /\ calls = <<>>

LoadIdle ==
    /\ dir = <<>>
    /\ lpc = "off"
    /\ todo = {}
    /\ all_cases = <<>>
    /\ all_skips = <<>>
    /\ warnings = <<>>
    /\ load_err = ""
    /\ loads = <<>>

MainIdle ==
    /\ engine = None
    /\ binary = FALSE
    /\ mpc = "off"
    /\ total_failed = 0
    /\ ran = <<>>
    /\ exit_code = "none"

ConvertIdle ==
    /\ kind = "none"
    /\ cpc = "off"
    /\ lo_proc = "none"
    /\ attempts = 0
    /\ csv_file = FALSE
    /\ cenv = <<>>
    /\ cresult = None

AppIdle ==
    /\ app = <<>>
    /\ op = <<>>
    /\ before = <<>>

TuiIdle ==
    /\ monolith = FALSE
    /\ tpc = "off"
    /\ perf_mode = FALSE
    /\ batch_mode = FALSE
    /\ keys = <<>>
    /\ observed = None
    /\ reruns = 0
    /\ tui_ret = "none"

\* ------------------------------------------------------------------------
\* Extraction of one parsed specification (runner.rs, load_test_cases,
\* the Ok(spec) arm)
\* ------------------------------------------------------------------------
InitExtract ==
    /\ TuiIdle
    /\ AppIdle
    /\ \E K \in KeySets : \E f \in [K -> ScalarSet] :
       \E t \in SUBSET (TableNames \ {k[1] : k \in K}) :
          spec = MkSpec(f, t)
    /\ cases = <<>>
    /\ skips = <<>>
    /\ epc = "parsed"
    /\ RunnerIdle
    /\ LoadIdle
    /\ MainIdle
    /\ ConvertIdle

ExtractTestCases ==
    /\ epc = "parsed"
    /\ \E secs \in SectionOrders(spec) : \E ids \in ScalarOrders(spec) :
          cases' = extract_test_cases(spec, secs, ids)
    /\ epc' = "cases"
    /\ UNCHANGED <<avars, tvars, spec, skips, rvars, lvars, mvars, cvars>>

ExtractSkipCases ==
    /\ epc = "cases"
    /\ \E secs \in SectionOrders(spec) : \E ids \in ScalarOrders(spec) :
          skips' = extract_skip_cases(spec, secs, ids)
    /\ epc' = "done"
    /\ UNCHANGED <<avars, tvars, spec, cases, rvars, lvars, mvars, cvars>>

NextExtract == ExtractTestCases \/ ExtractSkipCases

SpecExtract == InitExtract /\ [][NextExtract]_vars

\* ------------------------------------------------------------------------
\* runner.rs: TestRunner::load_test_cases
\* ------------------------------------------------------------------------
MaxFiles == 2

MaxLoads == 2

Yaml == <<"y", "a", "m", "l">>

\* Path::extension: the part of the file name after its last dot; a dot at
\* the start of the name does not begin an extension.
extension(name) ==
    LET dots == { i \in 2..Len(name) : name[i] = "." }
    IN  IF dots = {} THEN None
        ELSE LET last == CHOOSE i \in dots : \A j \in dots : j <= i
             IN  Some(SubSeq(name, last + 1, Len(name)))

is_spec_file_AnyExtension(f) == TRUE

\* path.extension().is_some_and(|e| e == "yaml")
is_spec_file(f) == extension(f.name) = Some(Yaml)

\* A directory entry: its name, what fs::read_to_string answers, and what
\* serde_yaml_ng::from_str::<TestSpec> makes of the content (None: an error).
File(name, read, yaml) == [name |-> name, read |-> read, yaml |-> yaml]

RunnableScalar(f, x) ==
    [value |-> None, formula |-> Some(f), expected |-> Some(x), skip |-> None]

SkippedScalar(r) ==
    [value |-> None, formula |-> None, expected |-> None, skip |-> Some(r)]

SpecOne ==
    MkSpec([ k \in { << <<"a">>, <<"c">> >> } |->
               RunnableScalar(<<"=", "1">>, 1 * Scale) ], {})

SpecTwo ==
    MkSpec([ k \in { << <<"a">>, <<"b", ".", "c">> >>, << <<"a">>, <<"c">> >> } |->
               IF k[2] = <<"c">> THEN SkippedScalar(<<"r">>)
               ELSE RunnableScalar(<<"=", "1", "+", "1">>, 2 * Scale) ], {})

SpecMeta ==
    MkSpec([ k \in { << <<"_", "m">>, <<"c">> >> } |->
               RunnableScalar(<<"=", "1">>, 1 * Scale) ], {})

FilePool ==
    { File(<<"a", ".", "y", "a", "m", "l">>, OkUnit, Some(SpecOne)),
      File(<<"b", ".", "y", "a", "m", "l">>, OkUnit, Some(SpecTwo)),
      File(<<"d", ".", "y", "a", "m", "l">>, OkUnit, Some(SpecOne)),
      File(<<"m", ".", "y", "a", "m", "l">>, OkUnit, Some(SpecMeta)),
      File(<<"b", "a", "d", ".", "y", "a", "m", "l">>, OkUnit, None),
      File(<<"i", "o", ".", "y", "a", "m", "l">>, Err("e1"), None),
      File(<<"r", "e", "a", "d", "m", "e", ".", "t", "x", "t">>, OkUnit, None),
      File(<<"c", ".", "y", "m", "l">>, OkUnit, Some(SpecOne)),
      File(<<".", "y", "a", "m", "l">>, OkUnit, Some(SpecOne)) }

\* A tests directory: whether the path exists, what fs::read_dir answers,
\* and the entries it holds.
Dir(exists, read_dir, entries) ==
    [exists |-> exists, read_dir |-> read_dir, entries |-> entries]

MissingDir == Dir(FALSE, Err("e1"), {})

DirSet ==
    { MissingDir, Dir(TRUE, Err("e1"), {}) }
    \cup { Dir(TRUE, OkUnit, fs) :
             fs \in { F \in SUBSET FilePool : Cardinality(F) <= MaxFiles } }

\* What the Ok(spec) arm appends to all_cases, for every iteration order of
\* the maps of the specification.
FileCases(sp) ==
    { extract_test_cases(sp, secs, ids) :
        secs \in SectionOrders(sp), ids \in ScalarOrders(sp) }

FileSkips(sp) ==
    { extract_skip_cases(sp, secs, ids) :
        secs \in SectionOrders(sp), ids \in ScalarOrders(sp) }

LoadStart_NoExistsCheck ==
    /\ lpc = "start"
    /\ IF dir.exists /\ ~dir.read_dir.ok
       THEN /\ lpc' = "err"
            /\ load_err' = dir.read_dir.e
            /\ todo' = {}
       ELSE /\ lpc' = "reading"
            /\ load_err' = ""
            /\ todo' = dir.entries
    /\ UNCHANGED <<avars, tvars, dir, all_cases, all_skips, warnings, loads,
                   evars, rvars, mvars, cvars>>

\* load_test_cases up to the loop: the exists() check and fs::read_dir.
LoadStart ==
    /\ lpc = "start"
    /\ IF ~dir.exists
       THEN /\ lpc' = "err"
            /\ load_err' = "Tests directory does not exist"
            /\ todo' = {}
       ELSE IF ~dir.read_dir.ok
       THEN /\ lpc' = "err"
            /\ load_err' = dir.read_dir.e
            /\ todo' = {}
       ELSE /\ lpc' = "reading"
            /\ load_err' = ""
            /\ todo' = dir.entries
    /\ UNCHANGED <<avars, tvars, dir, all_cases, all_skips, warnings, loads,
                   evars, rvars, mvars, cvars>>

\* One iteration of the loop, for the entry read_dir yields next.
LoadEntry_AbortOnParseError ==
    /\ lpc = "reading"
    /\ \E f \in todo :
          /\ todo' = todo \ {f}
          /\ IF ~is_spec_file(f)
             THEN UNCHANGED <<lpc, load_err, all_cases, all_skips, warnings>>
             ELSE IF ~f.read.ok
             THEN /\ lpc' = "err"
                  /\ load_err' = f.read.e
                  /\ UNCHANGED <<all_cases, all_skips, warnings>>
             ELSE IF f.yaml = None
             THEN /\ lpc' = "err"
                  /\ load_err' = "Failed to parse"
                  /\ UNCHANGED <<all_cases, all_skips, warnings>>
             ELSE /\ \E cs \in FileCases(unwrap(f.yaml)) :
                        all_cases' = all_cases \o cs
                  /\ \E ss \in FileSkips(unwrap(f.yaml)) :
                        all_skips' = all_skips \o ss
                  /\ UNCHANGED <<lpc, load_err, warnings>>
    /\ UNCHANGED <<avars, tvars, dir, loads, evars, rvars, mvars, cvars>>

LoadEntry_WarnOnReadError ==
    /\ lpc = "reading"
    /\ \E f \in todo :
          /\ todo' = todo \ {f}
          /\ IF ~is_spec_file(f)
             THEN UNCHANGED <<lpc, load_err, all_cases, all_skips, warnings>>
             ELSE IF ~f.read.ok \/ f.yaml = None
             THEN /\ warnings' = Append(warnings, f.name)
                  /\ UNCHANGED <<lpc, load_err, all_cases, all_skips>>
             ELSE /\ \E cs \in FileCases(unwrap(f.yaml)) :
                        all_cases' = all_cases \o cs
                  /\ \E ss \in FileSkips(unwrap(f.yaml)) :
                        all_skips' = all_skips \o ss
                  /\ UNCHANGED <<lpc, load_err, warnings>>
    /\ UNCHANGED <<avars, tvars, dir, loads, evars, rvars, mvars, cvars>>

LoadEntry ==
    /\ lpc = "reading"
    /\ \E f \in todo :
          /\ todo' = todo \ {f}
          /\ IF ~is_spec_file(f)
             THEN UNCHANGED <<lpc, load_err, all_cases, all_skips, warnings>>
             ELSE IF ~f.read.ok
             THEN /\ lpc' = "err"
                  /\ load_err' = f.read.e
                  /\ UNCHANGED <<all_cases, all_skips, warnings>>
             ELSE IF f.yaml = None
             THEN /\ warnings' = Append(warnings, f.name)
                  /\ UNCHANGED <<lpc, load_err, all_cases, all_skips>>
             ELSE /\ \E cs \in FileCases(unwrap(f.yaml)) :
                        all_cases' = all_cases \o cs
                  /\ \E ss \in FileSkips(unwrap(f.yaml)) :
                        all_skips' = all_skips \o ss
                  /\ UNCHANGED <<lpc, load_err, warnings>>
    /\ UNCHANGED <<avars, tvars, dir, loads, evars, rvars, mvars, cvars>>

\* Ok((all_cases, all_skips)) once read_dir is exhausted.
LoadReturn ==
    /\ lpc = "reading"
    /\ todo = {}
    /\ lpc' = "ok"
    /\ UNCHANGED <<avars, tvars, dir, todo, all_cases, all_skips, warnings, load_err, loads,
                   evars, rvars, mvars, cvars>>

\* What a finished load returned.
Loaded ==
    IF lpc = "ok" THEN Ok(<<all_cases, all_skips>>) ELSE Err(load_err)

LoadAgain_Accumulates ==
    /\ lpc \in {"ok", "err"}
    /\ Len(loads) + 1 < MaxLoads
    /\ loads' = Append(loads, Loaded)
    /\ lpc' = "start"
    /\ todo' = {}
    /\ warnings' = <<>>
    /\ load_err' = ""
    /\ UNCHANGED <<avars, tvars, dir, all_cases, all_skips, evars, rvars, mvars, cvars>>

\* load_test_cases is called again on the same directory.
LoadAgain ==
    /\ lpc \in {"ok", "err"}
    /\ Len(loads) + 1 < MaxLoads
    /\ loads' = Append(loads, Loaded)
    /\ lpc' = "start"
    /\ todo' = {}
    /\ all_cases' = <<>>
    /\ all_skips' = <<>>
    /\ warnings' = <<>>
    /\ load_err' = ""
    /\ UNCHANGED <<avars, tvars, dir, evars, rvars, mvars, cvars>>

InitLoad ==
    /\ TuiIdle
    /\ AppIdle
    /\ dir \in DirSet
    /\ lpc = "start"
    /\ todo = {}
    /\ all_cases = <<>>
    /\ all_skips = <<>>
    /\ warnings = <<>>
    /\ load_err = ""
    /\ loads = <<>>
    /\ ExtractIdle
    /\ RunnerIdle
    /\ MainIdle
    /\ ConvertIdle

NextLoad == LoadStart \/ LoadEntry \/ LoadReturn \/ LoadAgain

SpecLoad == InitLoad /\ [][NextLoad]_vars

\* ------------------------------------------------------------------------
\* types.rs: TestResult.  Every variant is a record of the same shape; the
\* fields a variant does not have are None (formula and expected of a Skip
\* are the empty string and 0).
\* ------------------------------------------------------------------------
Pass(tc, actual) ==
    [ status |-> "pass", name |-> tc.name, formula |-> tc.formula,
      expected |-> tc.expected, actual |-> Some(actual), error |-> None,
      reason |-> None ]

Fail_NoActualNoError(tc, actual, error) ==
    [ status |-> "fail", name |-> tc.name, formula |-> tc.formula,
      expected |-> tc.expected, actual |-> None, error |-> None,
      reason |-> None ]

Fail_ExpectedFromActual(tc, actual, error) ==
    [ status |-> "fail", name |-> tc.name, formula |-> tc.formula,
      expected |-> IF is_some(actual) THEN unwrap(actual) ELSE tc.expected,
      actual |-> actual, error |-> error, reason |-> None ]

Fail(tc, actual, error) ==
    [ status |-> "fail", name |-> tc.name, formula |-> tc.formula,
      expected |-> tc.expected, actual |-> actual, error |-> error,
      reason |-> None ]

Skip(sc) ==
    [ status |-> "skip", name |-> sc.name, formula |-> <<>>, expected |-> 0,
      actual |-> None, error |-> None, reason |-> Some(sc.reason) ]

\* ------------------------------------------------------------------------
\* runner.rs: result reconciliation and result extraction
\* ------------------------------------------------------------------------
\* f64::EPSILON is smaller than one unit of the grid, so a difference of two
\* grid values is below it exactly when it is below one unit.
EPSILON == 1

\* 0.0001
FallbackTol == Pow10(FracDigits - 4)

Classify_Loose(tc, actual) ==
    IF Abs(actual - tc.expected) < FallbackTol
    THEN Pass(tc, actual)
    ELSE Fail(tc, Some(actual), None)

\* if (actual - expected).abs() < f64::EPSILON { Pass } else { Fail }
Classify(tc, actual) ==
    IF Abs(actual - tc.expected) < EPSILON
    THEN Pass(tc, actual)
    ELSE Fail(tc, Some(actual), None)

ResultLabel == <<"r", "e", "s", "u", "l", "t">>

TestResultLabel == <<"t", "e", "s", "t", "_", "r", "e", "s", "u", "l", "t">>

\* line.split(',').map(|s| s.trim_matches('"').trim()).collect()
csv_cells(line) ==
    LET raw == split(line, ",")
    IN  [ i \in 1..Len(raw) |-> trim(trim_matches(raw[i], "\"")) ]

scan_cells_LabelledFirst(cells, i, expected) ==
    LET labels == { j \in i..(Len(cells) - 1) :
                      /\ cells[j] = ResultLabel \/ cells[j] = TestResultLabel
                      /\ parse_f64(remove_char(cells[j + 1], ",")).ok }
        numbers == { j \in i..Len(cells) :
                       LET own == parse_f64(remove_char(cells[j], ","))
                       IN  own.ok /\ Abs(own.v - expected) < FallbackTol }
        first(S) == CHOOSE j \in S : \A k \in S : j <= k
    IN  IF labels # {}
        THEN Some(parse_f64(remove_char(cells[first(labels) + 1], ",")).v)
        ELSE IF numbers # {}
        THEN Some(parse_f64(remove_char(cells[first(numbers)], ",")).v)
        ELSE None

\* The loop over the cells of one line in find_result_in_csv, from cell i:
\* Some(value) at the first cell that returns, None when none does.
RECURSIVE scan_cells(_, _, _)
scan_cells(cells, i, expected) ==
    IF i > Len(cells) THEN None
    ELSE LET cell == cells[i]
             labelled == (cell = ResultLabel \/ cell = TestResultLabel)
                            /\ i + 1 <= Len(cells)
             following == IF labelled
                          THEN parse_f64(remove_char(cells[i + 1], ","))
                          ELSE ErrNum("")
             own == parse_f64(remove_char(cell, ","))
         IN  IF labelled /\ following.ok THEN Some(following.v)
             ELSE IF own.ok /\ Abs(own.v - expected) < FallbackTol
             THEN Some(own.v)
             ELSE scan_cells(cells, i + 1, expected)

\* The loop over the lines in find_result_in_csv.
RECURSIVE scan_lines(_, _)
scan_lines(lines, expected) ==
    IF lines = <<>> THEN ErrNum("Could not find result in CSV output")
    ELSE IF ~Head(lines).ok
    THEN ErrNum("Failed to read line: " \o Head(lines).e)
    ELSE LET found == scan_cells(csv_cells(Head(lines).v), 1, expected)
         IN  IF is_some(found) THEN Ok(unwrap(found))
             ELSE scan_lines(Tail(lines), expected)

\* find_result_in_csv; csv is the outcome of opening the file: its lines,
\* each the outcome of reading it, or the error of File::open.
find_result_in_csv(csv, expected) ==
    IF ~csv.ok THEN ErrNum("Failed to open CSV: " \o csv.e)
    ELSE scan_lines(csv.v, expected)

BatchPrefixLong ==
    <<"a", "s", "s", "u", "m", "p", "t", "i", "o", "n", "s", ".",
      "t", "e", "s", "t", "_">>

BatchPrefix == <<"t", "e", "s", "t", "_">>

batch_line_ShortPrefixOnly(acc, line, count) ==
    IF ~line.ok THEN acc
    ELSE LET cells == csv_cells(line.v)
         IN  IF Len(cells) >= 2
             THEN LET idx_str == strip_prefix(cells[1], BatchPrefix)
                      index == IF is_some(idx_str) THEN parse_usize(unwrap(idx_str))
                             ELSE ErrNum("")
                      value == parse_f64(remove_char(cells[2], ","))
                  IN  IF is_some(idx_str) /\ index.ok /\ index.v < count /\ value.ok
                      THEN [acc EXCEPT ![index.v + 1] = Ok(value.v)]
                      ELSE acc
             ELSE acc

\* The body of the loop over the lines in parse_batch_csv: the acc
\* vector after one line.
batch_line(acc, line, count) ==
    IF ~line.ok THEN acc
    ELSE LET cells == csv_cells(line.v)
         IN  IF Len(cells) >= 2
             THEN LET label == cells[1]
                      idx_str == or_else(strip_prefix(label, BatchPrefixLong),
                                         strip_prefix(label, BatchPrefix))
                      index == IF is_some(idx_str) THEN parse_usize(unwrap(idx_str))
                             ELSE ErrNum("")
                      value == parse_f64(remove_char(cells[2], ","))
                  IN  IF is_some(idx_str) /\ index.ok /\ index.v < count /\ value.ok
                      THEN [acc EXCEPT ![index.v + 1] = Ok(value.v)]
                      ELSE acc
             ELSE acc

RECURSIVE batch_lines(_, _, _)
batch_lines(acc, lines, count) ==
    IF lines = <<>> THEN acc
    ELSE batch_lines(batch_line(acc, Head(lines), count), Tail(lines), count)

\* The number of leading entries up to the last one that holds a value.
LastOk(acc) ==
    IF \E i \in 1..Len(acc) : acc[i].ok
    THEN CHOOSE i \in 1..Len(acc) :
             acc[i].ok /\ \A j \in (i + 1)..Len(acc) : ~acc[j].ok
    ELSE 0

parse_batch_csv_GrowOnDemand(csv, count) ==
    IF ~csv.ok
    THEN [ i \in 1..count |-> ErrNum("Failed to open CSV: " \o csv.e) ]
    ELSE LET full == batch_lines([ i \in 1..count |->
                                     ErrNum("Missing result in CSV output") ],
                                 csv.v, count)
         IN  SubSeq(full, 1, LastOk(full))

\* parse_batch_csv: one entry per test case, set by index.
parse_batch_csv(csv, count) ==
    IF ~csv.ok
    THEN [ i \in 1..count |-> ErrNum("Failed to open CSV: " \o csv.e) ]
    ELSE batch_lines([ i \in 1..count |->
                           ErrNum("Missing result in CSV output") ],
                     csv.v, count)

CalculatePattern ==
    <<"a", "s", "s", "u", "m", "p", "t", "i", "o", "n", "s", ".">>
        \o TestResultLabel \o <<" ", "=", " ">>

\* str::lines: the pieces between line feeds, without a final empty piece.
lines_of(s) ==
    LET pieces == split(s, "\n")
    IN  IF pieces[Len(pieces)] = <<>>
        THEN SubSeq(pieces, 1, Len(pieces) - 1)
        ELSE pieces

RECURSIVE calculate_lines(_)
calculate_lines(lines) ==
    IF lines = <<>> THEN ErrNum("Could not find test_result in output")
    ELSE LET rest == strip_prefix(trim(Head(lines)), CalculatePattern)
         IN  IF is_some(rest)
             THEN LET r == parse_f64(trim(unwrap(rest)))
                  IN  IF r.ok THEN r
                      ELSE ErrNum("Failed to parse value: " \o r.e)
             ELSE calculate_lines(Tail(lines))

\* parse_calculate_output(output, "test_result")
parse_calculate_output(output) == calculate_lines(lines_of(output))

\* ------------------------------------------------------------------------
\* runner.rs: the three pipelines.  env is what the environment does at
\* each step of one pipeline: every field is a Result.
\* ------------------------------------------------------------------------
\* TestRunner::run_test
run_test_RejectsInexactMatch(tc, env) ==
    IF ~env.tempdir.ok
    THEN Fail(tc, None, Some("Failed to create temp dir: " \o env.tempdir.e))
    ELSE IF ~env.write.ok
    THEN Fail(tc, None, Some("Failed to write YAML: " \o env.write.e))
    ELSE IF ~env.spawn.ok
    THEN Fail(tc, None, Some("Failed to run forge-demo: " \o env.spawn.e))
    ELSE IF ~env.status.ok
    THEN Fail(tc, None, Some("forge-demo export failed: " \o env.status.e))
    ELSE IF ~env.convert.ok
    THEN Fail(tc, None, Some("CSV conversion failed: " \o env.convert.e))
    ELSE LET found == find_result_in_csv(env.csv, tc.expected)
         IN  IF found.ok /\ Abs(found.v - tc.expected) < EPSILON
             THEN Pass(tc, found.v)
             ELSE IF found.ok
             THEN Fail(tc, None, Some("Could not find result in CSV output"))
             ELSE Fail(tc, None, Some(found.e))

run_test(tc, env) ==
    IF ~env.tempdir.ok
    THEN Fail(tc, None, Some("Failed to create temp dir: " \o env.tempdir.e))
    ELSE IF ~env.write.ok
    THEN Fail(tc, None, Some("Failed to write YAML: " \o env.write.e))
    ELSE IF ~env.spawn.ok
    THEN Fail(tc, None, Some("Failed to run forge-demo: " \o env.spawn.e))
    ELSE IF ~env.status.ok
    THEN Fail(tc, None, Some("forge-demo export failed: " \o env.status.e))
    ELSE IF ~env.convert.ok
    THEN Fail(tc, None, Some("CSV conversion failed: " \o env.convert.e))
    ELSE LET found == find_result_in_csv(env.csv, tc.expected)
         IN  IF found.ok THEN Classify(tc, found.v)
             ELSE Fail(tc, None, Some(found.e))

\* TestRunner::run_perf_test
run_perf_test(tc, env) ==
    IF ~env.tempdir.ok
    THEN Fail(tc, None, Some("Failed to create temp dir: " \o env.tempdir.e))
    ELSE IF ~env.write.ok
    THEN Fail(tc, None, Some("Failed to write YAML: " \o env.write.e))
    ELSE IF ~env.spawn.ok
    THEN Fail(tc, None, Some("Failed to run forge calculate: " \o env.spawn.e))
    ELSE IF ~env.status.ok
    THEN Fail(tc, None, Some("forge calculate failed: " \o env.status.e))
    ELSE LET parsed == parse_calculate_output(env.stdout)
         IN  IF parsed.ok THEN Classify(tc, parsed.v)
             ELSE Fail(tc, None, Some(parsed.e))

\* self.skip_cases.iter().map(|sc| TestResult::Skip { .. })
skip_results(scs) == [ i \in 1..Len(scs) |-> Skip(scs[i]) ]

fail_all_OwnMessage(tcs, msg) ==
    [ i \in 1..Len(tcs) |->
        Fail(tcs[i], None, Some(IF i = 1 THEN msg ELSE "Missing result in CSV")) ]

\* for tc in &self.test_cases { results.push(TestResult::Fail { .. }) }
fail_all(tcs, msg) == [ i \in 1..Len(tcs) |-> Fail(tcs[i], None, Some(msg)) ]

\* Vec::get: Some(element) for an index below the length (from 0).
get(vec, i) == IF i < Len(vec) THEN Some(vec[i + 1]) ELSE None

\* The body of the last loop of run_batch: the result of case i (from 0).
batch_result(tc, entry) ==
    IF is_some(entry)
    THEN IF unwrap(entry).ok
         THEN Classify(tc, unwrap(entry).v)
         ELSE Fail(tc, None, Some(unwrap(entry).e))
    ELSE Fail(tc, None, Some("Missing result in CSV"))

run_batch_SkipsLast(scs, tcs, env) ==
    IF tcs = <<>> THEN skip_results(scs)
    ELSE IF ~env.tempdir.ok
    THEN fail_all(tcs, "Failed to create temp dir: " \o env.tempdir.e)
         \o skip_results(scs)
    ELSE IF ~env.write.ok
    THEN fail_all(tcs, "Failed to write YAML: " \o env.write.e)
         \o skip_results(scs)
    ELSE IF ~env.spawn.ok
    THEN fail_all(tcs, "Failed to run forge-demo: " \o env.spawn.e)
         \o skip_results(scs)
    ELSE IF ~env.status.ok
    THEN fail_all(tcs, "forge-demo export failed: " \o env.status.e)
         \o skip_results(scs)
    ELSE IF ~env.convert.ok
    THEN fail_all(tcs, "CSV conversion failed: " \o env.convert.e)
         \o skip_results(scs)
    ELSE LET csv_results == parse_batch_csv(env.csv, Len(tcs))
         IN  [ i \in 1..Len(tcs) |-> batch_result(tcs[i], get(csv_results, i - 1)) ]
             \o skip_results(scs)

\* TestRunner::run_batch
run_batch(scs, tcs, env) ==
    IF tcs = <<>> THEN skip_results(scs)
    ELSE IF ~env.tempdir.ok
    THEN skip_results(scs)
         \o fail_all(tcs, "Failed to create temp dir: " \o env.tempdir.e)
    ELSE IF ~env.write.ok
    THEN skip_results(scs)
         \o fail_all(tcs, "Failed to write YAML: " \o env.write.e)
    ELSE IF ~env.spawn.ok
    THEN skip_results(scs)
         \o fail_all(tcs, "Failed to run forge-demo: " \o env.spawn.e)
    ELSE IF ~env.status.ok
    THEN skip_results(scs)
         \o fail_all(tcs, "forge-demo export failed: " \o env.status.e)
    ELSE IF ~env.convert.ok
    THEN skip_results(scs)
         \o fail_all(tcs, "CSV conversion failed: " \o env.convert.e)
    ELSE LET csv_results == parse_batch_csv(env.csv, Len(tcs))
         IN  skip_results(scs)
             \o [ i \in 1..Len(tcs) |->
                    batch_result(tcs[i], get(csv_results, i - 1)) ]

\* A subprocess invocation: the program ("subject" is forge_binary, "oracle"
\* the spreadsheet engine), its command, and the case it is issued for (0:
\* the whole batch).
Call(prog, cmd, case) == [prog |-> prog, cmd |-> cmd, case |-> case]

Export(case) == Call("subject", "export", case)

Calculate(case) == Call("subject", "calculate --dry-run", case)

Convert(case) == Call("oracle", "xlsx_to_csv", case)

skip_calls_OnePerSkip(scs) == [ i \in 1..Len(scs) |-> Export(i) ]

\* The commands issued by |sc| TestResult::Skip { .. }: none.
skip_calls(scs) == <<>>

run_test_calls_RetriesExport(i, env) ==
    IF ~env.tempdir.ok \/ ~env.write.ok THEN <<>>
    ELSE IF ~env.spawn.ok \/ ~env.status.ok THEN << Export(i), Export(i) >>
    ELSE << Export(i), Convert(i) >>

\* The commands run_test issues for case i.
run_test_calls(i, env) ==
    IF ~env.tempdir.ok \/ ~env.write.ok THEN <<>>
    ELSE IF ~env.spawn.ok \/ ~env.status.ok THEN << Export(i) >>
    ELSE << Export(i), Convert(i) >>

run_perf_test_calls_ThroughOracle(i, env) ==
    IF ~env.tempdir.ok \/ ~env.write.ok THEN <<>>
    ELSE IF ~env.spawn.ok \/ ~env.status.ok THEN << Export(i) >>
    ELSE << Export(i), Convert(i) >>

\* The commands run_perf_test issues for case i.
run_perf_test_calls(i, env) ==
    IF ~env.tempdir.ok \/ ~env.write.ok THEN <<>>
    ELSE << Calculate(i) >>

run_batch_calls_PerCase(scs, tcs, env) ==
    IF tcs = <<>> \/ ~env.tempdir.ok \/ ~env.write.ok THEN <<>>
    ELSE IF ~env.spawn.ok \/ ~env.status.ok
    THEN [ i \in 1..Len(tcs) |-> Export(i) ]
    ELSE [ i \in 1..Len(tcs) |-> Export(i) ] \o << Convert(0) >>

\* The commands run_batch issues.
run_batch_calls(scs, tcs, env) ==
    IF tcs = <<>> \/ ~env.tempdir.ok \/ ~env.write.ok THEN <<>>
    ELSE IF ~env.spawn.ok \/ ~env.status.ok THEN << Export(0) >>
    ELSE << Export(0), Convert(0) >>

\* Vec<TestResult>::collect of the parallel map: the results by input index.
collect_CompletionOrder(sl, order) ==
    [ i \in 1..Len(order) |-> unwrap(sl[order[i]]) ]

collect(sl, order) == [ i \in 1..Len(sl) |-> unwrap(sl[i]) ]

\* ------------------------------------------------------------------------
\* Bounds of the runner inputs: the loaded cases and what the environment
\* (file system, subject, oracle) answers
\* ------------------------------------------------------------------------
MaxCases == 2

MaxSkips == 2

CasePool ==
    { TestCase(<<"a", ".", "x">>, <<"=", "1">>, 1 * Scale),
      TestCase(<<"a", ".", "y">>, <<"=", "1", "+", "1">>, 2 * Scale) }

SkipPool ==
    { SkipCase(<<"a", ".", "s">>, <<"r">>),
      SkipCase(<<"b", ".", "s">>, <<"q">>) }

SeqsUpTo(S, n) == UNION { [1..k -> S] : k \in 0..n }

\* The loaded skip cases: up to n of them, of alternating name and reason.
SkipSeqs(n) ==
    LET first == CHOOSE sc \in SkipPool : sc.name[1] = "a"
        other == CHOOSE sc \in SkipPool : sc # first
    IN  { [ i \in 1..k |-> IF i % 2 = 1 THEN first ELSE other ] : k \in 0..n }

IoErrors == { "e1", "e2" }

Stderrs == { "bad" }

ConvertErrors == { "ssconvert failed: x", "CSV file not created" }

\* The environment in which every step succeeds and the outputs are empty.
EnvOk ==
    [ tempdir |-> OkUnit, write |-> OkUnit, spawn |-> OkUnit,
      status |-> OkUnit, convert |-> OkUnit, csv |-> Ok(<<>>),
      stdout |-> <<>> ]

\* The first failing step of a pipeline, up to the subject's exit status.
SubjectFailures ==
    { [EnvOk EXCEPT !.tempdir = Err(e)] : e \in IoErrors }
    \cup { [EnvOk EXCEPT !.write = Err("e1")],
           [EnvOk EXCEPT !.spawn = Err("e1")] }
    \cup { [EnvOk EXCEPT !.status = Err(s)] : s \in Stderrs }

OracleFailures == { [EnvOk EXCEPT !.convert = Err(e)] : e \in ConvertErrors }

\* CSV files the oracle leaves for one case.
SingleCsvFiles ==
    { << Ok(<<"t", "e", "s", "t", "_", "r", "e", "s", "u", "l", "t", ",", "1">>) >>,
      << Ok(<<"t", "e", "s", "t", "_", "r", "e", "s", "u", "l", "t", ",", "2">>) >>,
      << Ok(<<"x", ",", "1", ".", "0", "0", "0", "0", "5">>) >>,
      << Ok(<<"r", "e", "s", "u", "l", "t", ",", "\"", "1", ",", "2", "3", "4", "\"">>) >>,
      << Ok(<<"n", "a", "m", "e", ",", "v", "a", "l", "u", "e">>), Ok(<<"x", ",", " ", "2", " ">>) >>,
      << Ok(<<"r", "e", "s", "u", "l", "t", ",", "a", "b", "c", ",", "\"", "1", "\"">>) >>,
      << Ok(<<"r", "e", "s", "u", "l", "t">>), Ok(<<"2", ",", "r", "e", "s", "u", "l", "t", ",", "1">>) >>,
      << Err("e1"), Ok(<<"r", "e", "s", "u", "l", "t", ",", "1">>) >>,
      <<>> }

\* CSV files the oracle leaves for a batch.
BatchCsvFiles ==
    { << Ok(<<"t", "e", "s", "t", "_", "0", ",", "1">>), Ok(<<"t", "e", "s", "t", "_", "1", ",", "2">>) >>,
      << Ok(<<"a", "s", "s", "u", "m", "p", "t", "i", "o", "n", "s", ".", "t", "e", "s", "t", "_", "1", ",", "2">>) >>,
      << Ok(<<"t", "e", "s", "t", "_", "0", ",", "1">>) >>,
      << Ok(<<"t", "e", "s", "t", "_", "0", ",", "a", "b", "c">>), Ok(<<"t", "e", "s", "t", "_", "x", ",", "1">>), Ok(<<"t", "e", "s", "t", "_", "7", ",", "1">>), Err("e1"), Ok(<<"t", "e", "s", "t", "_", "1", ",", "2">>) >>,
      << Ok(<<"\"", "t", "e", "s", "t", "_", "0", "\"", ",", "\"", "1", ".", "0", "0", "0", "0", "5", "\"">>) >>,
      <<>> }

\* What `forge calculate --dry-run` prints.
Stdouts ==
    { <<"a", "s", "s", "u", "m", "p", "t", "i", "o", "n", "s", ".", "t", "e", "s", "t", "_", "r", "e", "s", "u", "l", "t", " ", "=", " ", "1", "\n">>,
      <<"a", "s", "s", "u", "m", "p", "t", "i", "o", "n", "s", ".", "t", "e", "s", "t", "_", "r", "e", "s", "u", "l", "t", " ", "=", " ", "2", "\n">>,
      <<"C", "a", "l", "c", "u", "l", "a", "t", "i", "n", "g", "\n", " ", " ", "a", "s", "s", "u", "m", "p", "t", "i", "o", "n", "s", ".", "t", "e", "s", "t", "_", "r", "e", "s", "u", "l", "t", " ", "=", " ", "1", ".", "0", "0", "0", "0", "5", " ", "\n">>,
      <<"a", "s", "s", "u", "m", "p", "t", "i", "o", "n", "s", ".", "t", "e", "s", "t", "_", "r", "e", "s", "u", "l", "t", " ", "=", " ", "a", "b", "c", "\n">>,
      <<>> }

SeqEnvSet ==
    SubjectFailures \cup OracleFailures
    \cup { [EnvOk EXCEPT !.csv = Err("e1")] }
    \cup { [EnvOk EXCEPT !.csv = Ok(f)] : f \in SingleCsvFiles }

BatchEnvSet ==
    SubjectFailures \cup OracleFailures
    \cup { [EnvOk EXCEPT !.csv = Err("e1")] }
    \cup { [EnvOk EXCEPT !.csv = Ok(f)] : f \in BatchCsvFiles }

PerfEnvSet ==
    SubjectFailures \cup { [EnvOk EXCEPT !.stdout = s] : s \in Stdouts }

\* ------------------------------------------------------------------------
\* The runner after TestRunner::new, and one call of run_all,
\* run_perf_parallel or run_batch
\* ------------------------------------------------------------------------
\* self.run_test(tc) for every loaded case and every answer of the
\* environment.
RunTestTable ==
    [ tc \in CasePool |-> [ env \in SeqEnvSet |-> run_test(tc, env) ] ]

\* self.run_perf_test(tc) for every loaded case and every answer of the
\* environment.
RunPerfTable ==
    [ tc \in CasePool |-> [ env \in PerfEnvSet |-> run_perf_test(tc, env) ] ]

InitRun ==
    /\ TuiIdle
    /\ AppIdle
    /\ ExtractIdle
    /\ LoadIdle
    /\ MainIdle
    /\ ConvertIdle
    /\ test_cases \in SeqsUpTo(CasePool, MaxCases)
    /\ skip_cases \in SkipSeqs(MaxSkips)
    /\ mode = "none"
    /\ rpc = "idle"
    /\ results = <<>>
    /\ idx = 0
    /\ slots = <<>>
    /\ completed = <<>>
    /\ envs = [ i \in 1..Len(test_cases) |-> None ]
    /\ benv = None
    /\ calls = <<>>

\* run_all: the skip results, before the first case is run.
RunAllStart ==
    /\ rpc = "idle"
    /\ mode' = "normal"
    /\ rpc' = "running"
    /\ results' = skip_results(skip_cases)
    /\ idx' = 0
    /\ calls' = calls \o skip_calls(skip_cases)
    /\ UNCHANGED <<avars, tvars, evars, lvars, mvars, cvars, test_cases, skip_cases, slots,
                   completed, envs, benv>>

\* run_all: self.run_test(tc) for the next case.
RunTestStep ==
    /\ rpc = "running"
    /\ mode = "normal"
    /\ idx < Len(test_cases)
    /\ \E env \in SeqEnvSet :
          /\ results' = Append(results, RunTestTable[test_cases[idx + 1]][env])
          /\ envs' = [envs EXCEPT ![idx + 1] = Some(env)]
          /\ calls' = calls \o run_test_calls(idx + 1, env)
    /\ idx' = idx + 1
    /\ UNCHANGED <<avars, tvars, evars, lvars, mvars, cvars, test_cases, skip_cases, mode, rpc,
                   slots, completed, benv>>

\* run_all returns the collected vector.
RunAllReturn ==
    /\ rpc = "running"
    /\ mode = "normal"
    /\ idx = Len(test_cases)
    /\ rpc' = "returned"
    /\ UNCHANGED <<avars, tvars, evars, lvars, mvars, cvars, test_cases, skip_cases, mode,
                   results, idx, slots, completed, envs, benv, calls>>

\* run_batch, from call to return.
RunBatch ==
    /\ rpc = "idle"
    /\ mode' = "batch"
    /\ rpc' = "returned"
    /\ IF test_cases = <<>>
       THEN /\ results' = run_batch(skip_cases, test_cases, EnvOk)
            /\ calls' = calls \o run_batch_calls(skip_cases, test_cases, EnvOk)
            /\ benv' = None
       ELSE \E env \in BatchEnvSet :
               /\ results' = run_batch(skip_cases, test_cases, env)
               /\ calls' = calls \o run_batch_calls(skip_cases, test_cases, env)
               /\ benv' = Some(env)
    /\ UNCHANGED <<avars, tvars, evars, lvars, mvars, cvars, test_cases, skip_cases, idx, slots,
                   completed, envs>>

\* run_perf_parallel: the skip results, and the cases handed to the pool.
PerfStart ==
    /\ rpc = "idle"
    /\ mode' = "perf"
    /\ rpc' = "running"
    /\ results' = skip_results(skip_cases)
    /\ slots' = [ i \in 1..Len(test_cases) |-> None ]
    /\ completed' = <<>>
    /\ calls' = calls \o skip_calls(skip_cases)
    /\ UNCHANGED <<avars, tvars, evars, lvars, mvars, cvars, test_cases, skip_cases, idx, envs,
                   benv>>

\* A worker evaluates case i: self.run_perf_test(tc).
PerfTask(i) ==
    /\ rpc = "running"
    /\ mode = "perf"
    /\ slots[i] = None
    /\ \E env \in PerfEnvSet :
          /\ slots' = [slots EXCEPT ![i] = Some(RunPerfTable[test_cases[i]][env])]
          /\ envs' = [envs EXCEPT ![i] = Some(env)]
          /\ calls' = calls \o run_perf_test_calls(i, env)
    /\ completed' = Append(completed, i)
    /\ UNCHANGED <<avars, tvars, evars, lvars, mvars, cvars, test_cases, skip_cases, mode, rpc,
                   results, idx, benv>>

PerfCollect_ReturnsPartial ==
    /\ rpc = "running"
    /\ mode = "perf"
    /\ results' = results
                    \o [ k \in 1..Len(completed) |-> slots[completed[k]][1] ]
    /\ rpc' = "returned"
    /\ UNCHANGED <<avars, tvars, evars, lvars, mvars, cvars, test_cases, skip_cases, mode, idx,
                   slots, completed, envs, benv, calls>>

\* collect() returns once every case is evaluated; results.extend(..).
PerfCollect ==
    /\ rpc = "running"
    /\ mode = "perf"
    /\ \A i \in 1..Len(slots) : slots[i] # None
    /\ results' = results \o collect(slots, completed)
    /\ rpc' = "returned"
    /\ UNCHANGED <<avars, tvars, evars, lvars, mvars, cvars, test_cases, skip_cases, mode, idx,
                   slots, completed, envs, benv, calls>>

NextRun ==
    \/ RunAllStart
    \/ RunTestStep
    \/ RunAllReturn
    \/ RunBatch
    \/ PerfStart
    \/ \E i \in 1..Len(test_cases) : PerfTask(i)
    \/ PerfCollect

SpecRun == InitRun /\ [][NextRun]_vars

\* ------------------------------------------------------------------------
\* main.rs: main and run_all_mode (the --all presentation)
\* ------------------------------------------------------------------------
\* TestRunner::run_all, given what the environment answers to each case.
run_all(scs, tcs, es) ==
    skip_results(scs) \o [ i \in 1..Len(tcs) |-> run_test(tcs[i], es[i]) ]

\* TestRunner::run_perf_parallel, given what the environment answers to each
\* case.
run_perf_parallel(scs, tcs, es) ==
    skip_results(scs)
    \o collect([ i \in 1..Len(tcs) |-> Some(run_perf_test(tcs[i], es[i])) ],
               [ i \in 1..Len(tcs) |-> i ])

\* TestRunner::total_tests
total_tests == Len(test_cases) + Len(skip_cases)

\* The commands of the cases of a run, case after case.
RECURSIVE calls_of(_)
calls_of(per_case) ==
    IF per_case = <<>> THEN <<>>
    ELSE Head(per_case) \o calls_of(Tail(per_case))

\* print_results: the (passed, failed, skipped) counts of a result list.
print_results(rs) ==
    LET n(st) == Cardinality({ i \in 1..Len(rs) : rs[i].status = st })
    IN  [passed |-> n("pass"), failed |-> n("fail"), skipped |-> n("skip")]

Engines == { None, Some("Gnumeric"), Some("LibreOffice") }

\* What the environment answers to the cases of one mode of a headless run.
MainSeqEnvs ==
    { [EnvOk EXCEPT !.csv = Ok(<< Ok(<<"t", "e", "s", "t", "_", "r", "e", "s", "u", "l", "t", ",", "1">>) >>)],
      [EnvOk EXCEPT !.csv = Ok(<< Ok(<<"t", "e", "s", "t", "_", "r", "e", "s", "u", "l", "t", ",", "2">>) >>)],
      [EnvOk EXCEPT !.spawn = Err("e1")] }

MainPerfEnvs ==
    { [EnvOk EXCEPT !.stdout = <<"a", "s", "s", "u", "m", "p", "t", "i", "o", "n", "s", ".", "t", "e", "s", "t", "_", "r", "e", "s", "u", "l", "t", " ", "=", " ", "1", "\n">>],
      [EnvOk EXCEPT !.stdout = <<"a", "s", "s", "u", "m", "p", "t", "i", "o", "n", "s", ".", "t", "e", "s", "t", "_", "r", "e", "s", "u", "l", "t", " ", "=", " ", "2", "\n">>],
      [EnvOk EXCEPT !.status = Err("bad")] }

MainBatchEnvs ==
    { [EnvOk EXCEPT !.csv = Ok(<< Ok(<<"t", "e", "s", "t", "_", "0", ",", "1">>), Ok(<<"t", "e", "s", "t", "_", "1", ",", "1">>) >>)],
      [EnvOk EXCEPT !.csv = Ok(<< Ok(<<"t", "e", "s", "t", "_", "0", ",", "1">>), Ok(<<"t", "e", "s", "t", "_", "1", ",", "2">>) >>)],
      [EnvOk EXCEPT !.convert = Err("CSV file not created")] }

InitMain ==
    /\ TuiIdle
    /\ AppIdle
    /\ engine \in Engines
    /\ binary \in BOOLEAN
    /\ dir \in DirSet
    /\ mpc = "detect"
    /\ total_failed = 0
    /\ ran = <<>>
    /\ exit_code = "none"
    /\ lpc = "off"
    /\ todo = {}
    /\ all_cases = <<>>
    /\ all_skips = <<>>
    /\ warnings = <<>>
    /\ load_err = ""
    /\ loads = <<>>
    /\ ExtractIdle
    /\ RunnerIdle
    /\ ConvertIdle

\* main: SpreadsheetEngine::detect() and the let-else on its result.
MainDetect ==
    /\ mpc = "detect"
    /\ IF engine = None
       THEN mpc' = "exited" /\ exit_code' = "FAILURE"
       ELSE mpc' = "binary" /\ UNCHANGED exit_code
    /\ UNCHANGED <<avars, tvars, engine, binary, total_failed, ran, evars, rvars, lvars, cvars>>

\* main: the check of cli.binary, and the call of TestRunner::new.
MainBinary ==
    /\ mpc = "binary"
    /\ IF ~binary
       THEN mpc' = "exited" /\ exit_code' = "FAILURE" /\ UNCHANGED lpc
       ELSE mpc' = "new" /\ lpc' = "start" /\ UNCHANGED exit_code
    /\ UNCHANGED <<avars, tvars, engine, binary, total_failed, ran, evars, rvars, cvars,
                   dir, todo, all_cases, all_skips, warnings, load_err, loads>>

\* main: the match on what TestRunner::new returned.
MainNew ==
    /\ mpc = "new"
    /\ lpc \in {"ok", "err"}
    /\ IF lpc = "ok"
       THEN /\ test_cases' = all_cases
            /\ skip_cases' = all_skips
            /\ mpc' = "normal"
            /\ UNCHANGED exit_code
       ELSE /\ mpc' = "exited"
            /\ exit_code' = "FAILURE"
            /\ UNCHANGED <<test_cases, skip_cases>>
    /\ UNCHANGED <<avars, tvars, engine, binary, total_failed, ran, evars, lvars, cvars,
                   mode, rpc, results, idx, slots, completed, envs, benv, calls>>

\* run_all_mode, mode 1: run_all, print_results, total_failed += failed.
MainNormal ==
    /\ mpc = "normal"
    /\ \E es \in [1..Len(test_cases) -> MainSeqEnvs] :
          /\ results' = run_all(skip_cases, test_cases, es)
          /\ calls' = calls \o skip_calls(skip_cases)
                            \o calls_of([ i \in 1..Len(es) |->
                                            run_test_calls(i, es[i]) ])
    /\ mode' = "normal"
    /\ ran' = Append(ran, results')
    /\ total_failed' = total_failed + print_results(results').failed
    /\ mpc' = "perf"
    /\ UNCHANGED <<avars, tvars, engine, binary, exit_code, evars, lvars, cvars, test_cases,
                   skip_cases, rpc, idx, slots, completed, envs, benv>>

\* run_all_mode, mode 2: run_perf_parallel, print_results, total_failed +=
\* failed.
MainPerf ==
    /\ mpc = "perf"
    /\ \E es \in [1..Len(test_cases) -> MainPerfEnvs] :
          /\ results' = run_perf_parallel(skip_cases, test_cases, es)
          /\ calls' = calls \o skip_calls(skip_cases)
                            \o calls_of([ i \in 1..Len(es) |->
                                            run_perf_test_calls(i, es[i]) ])
    /\ mode' = "perf"
    /\ ran' = Append(ran, results')
    /\ total_failed' = total_failed + print_results(results').failed
    /\ mpc' = "batch"
    /\ UNCHANGED <<avars, tvars, engine, binary, exit_code, evars, lvars, cvars, test_cases,
                   skip_cases, rpc, idx, slots, completed, envs, benv>>

\* run_all_mode, mode 3: run_batch, print_results, total_failed += failed.
MainBatch ==
    /\ mpc = "batch"
    /\ \E env \in MainBatchEnvs :
          /\ results' = run_batch(skip_cases, test_cases, env)
          /\ calls' = calls \o run_batch_calls(skip_cases, test_cases, env)
    /\ mode' = "batch"
    /\ ran' = Append(ran, results')
    /\ total_failed' = total_failed + print_results(results').failed
    /\ mpc' = "summary"
    /\ UNCHANGED <<avars, tvars, engine, binary, exit_code, evars, lvars, cvars, test_cases,
                   skip_cases, rpc, idx, slots, completed, envs, benv>>

MainExit_LastModeOnly ==
    /\ mpc = "summary"
    /\ exit_code' = IF print_results(results).failed > 0 THEN "FAILURE"
                    ELSE "SUCCESS"
    /\ mpc' = "exited"
    /\ UNCHANGED <<avars, tvars, engine, binary, total_failed, ran, evars, rvars, lvars, cvars>>

\* run_all_mode: the final summary and the exit code.
MainExit ==
    /\ mpc = "summary"
    /\ exit_code' = IF total_failed > 0 THEN "FAILURE" ELSE "SUCCESS"
    /\ mpc' = "exited"
    /\ UNCHANGED <<avars, tvars, engine, binary, total_failed, ran, evars, rvars, lvars, cvars>>

NextMain ==
    \/ MainDetect
    \/ MainBinary
    \/ LoadStart
    \/ LoadEntry
    \/ LoadReturn
    \/ MainNew
    \/ MainNormal
    \/ MainPerf
    \/ MainBatch
    \/ MainExit

SpecMain == InitMain /\ [][NextMain]_vars

\* ------------------------------------------------------------------------
\* engine.rs: SpreadsheetEngine::xlsx_to_csv, called on a fresh temp dir
\* ------------------------------------------------------------------------
MaxAttempts == 2

\* format!("{:?}", csv_path)
CsvPathDebug == "\"test.csv\""

\* One answer of the environment to a step of the conversion.
Answer(step, r) == [step |-> step, r |-> r]

\* What the environment answered to a step, None when the step was not run.
answer_of(step) ==
    IF \E i \in 1..Len(cenv) : cenv[i].step = step
    THEN Some(cenv[CHOOSE i \in 1..Len(cenv) : cenv[i].step = step].r)
    ELSE None

\* What the environment answers to the steps of run_uno_convert, up to the
\* first one that fails.
UnoEnvOk ==
    [ tempdir |-> OkUnit, create |-> OkUnit, write |-> OkUnit,
      xlsx_abs |-> OkUnit, csv_abs |-> OkUnit, spawn |-> OkUnit,
      status |-> OkUnit ]

UnoEnvSet ==
    { UnoEnvOk }
    \cup { [UnoEnvOk EXCEPT !.tempdir = Err(e)] : e \in IoErrors }
    \cup { [UnoEnvOk EXCEPT !.create = Err(e)] : e \in IoErrors }
    \cup { [UnoEnvOk EXCEPT !.write = Err(e)] : e \in IoErrors }
    \cup { [UnoEnvOk EXCEPT !.xlsx_abs = Err(e)] : e \in IoErrors }
    \cup { [UnoEnvOk EXCEPT !.csv_abs = Err(e)] : e \in IoErrors }
    \cup { [UnoEnvOk EXCEPT !.spawn = Err(e)] : e \in IoErrors }
    \cup { [UnoEnvOk EXCEPT !.status = Err(s)] : s \in Stderrs }

\* SpreadsheetEngine::run_uno_convert
run_uno_convert(env) ==
    IF ~env.tempdir.ok THEN Err("Failed to create temp dir: " \o env.tempdir.e)
    ELSE IF ~env.create.ok
    THEN Err("Failed to create script file: " \o env.create.e)
    ELSE IF ~env.write.ok THEN Err("Failed to write script: " \o env.write.e)
    ELSE IF ~env.xlsx_abs.ok
    THEN Err("Failed to get absolute path for xlsx: " \o env.xlsx_abs.e)
    ELSE IF ~env.csv_abs.ok
    THEN Err("Failed to get absolute path for csv dir: " \o env.csv_abs.e)
    ELSE IF ~env.spawn.ok THEN Err("Failed to run Python: " \o env.spawn.e)
    ELSE IF ~env.status.ok
    THEN Err("Python UNO conversion failed: " \o env.status.e)
    ELSE OkUnit

\* python3 was started.
uno_ran(env) ==
    /\ env.tempdir.ok /\ env.create.ok /\ env.write.ok
    /\ env.xlsx_abs.ok /\ env.csv_abs.ok /\ env.spawn.ok

\* Child::kill: SIGKILL to a child that still runs; nothing for one that
\* has exited.
kill(proc) == IF proc = "running" THEN "killed" ELSE proc

\* Child::wait: the child is reaped.
wait(proc) == "reaped"

InitConvert ==
    /\ TuiIdle
    /\ AppIdle
    /\ kind \in {"Gnumeric", "LibreOffice"}
    /\ cpc = "start"
    /\ lo_proc = "none"
    /\ attempts = 0
    /\ csv_file = FALSE
    /\ cenv = <<>>
    /\ cresult = None
    /\ ExtractIdle
    /\ RunnerIdle
    /\ LoadIdle
    /\ MainIdle

\* The Gnumeric arm: ssconvert --recalc, from spawn to exit.
GnumericRun ==
    /\ cpc = "start"
    /\ kind = "Gnumeric"
    /\ \/ \E e \in IoErrors :
             /\ cenv' = Append(cenv, Answer("spawn", Err(e)))
             /\ cresult' = Some(Err("Failed to run ssconvert: " \o e))
             /\ cpc' = "returned"
             /\ UNCHANGED csv_file
       \/ \E s \in Stderrs : \E made \in BOOLEAN :
             /\ cenv' = cenv \o << Answer("spawn", OkUnit),
                                    Answer("status", Err(s)) >>
             /\ cresult' = Some(Err("ssconvert failed: " \o s))
             /\ cpc' = "returned"
             /\ csv_file' = made
       \/ \E made \in BOOLEAN :
             /\ cenv' = cenv \o << Answer("spawn", OkUnit),
                                    Answer("status", OkUnit) >>
             /\ cpc' = "check"
             /\ csv_file' = made
             /\ UNCHANGED cresult
    /\ UNCHANGED <<avars, tvars, kind, lo_proc, attempts, evars, rvars, lvars, mvars>>

\* libreoffice_convert_with_recalc: Command::spawn of the listening office.
LOSpawn ==
    /\ cpc = "start"
    /\ kind = "LibreOffice"
    /\ \/ \E e \in IoErrors :
             /\ cenv' = Append(cenv, Answer("lo_spawn", Err(e)))
             /\ cresult' = Some(Err("Failed to start LibreOffice: " \o e))
             /\ cpc' = "returned"
             /\ UNCHANGED lo_proc
       \/ /\ cenv' = Append(cenv, Answer("lo_spawn", OkUnit))
          /\ lo_proc' = "running"
          /\ cpc' = "wait_for_port"
          /\ UNCHANGED cresult
    /\ UNCHANGED <<avars, tvars, kind, attempts, csv_file, evars, rvars, lvars, mvars>>

\* The spawned office exits on its own.
LOExits ==
    /\ lo_proc = "running"
    /\ cpc \in {"wait_for_port", "run_uno_convert", "cleanup"}
    /\ lo_proc' = "exited"
    /\ UNCHANGED <<avars, tvars, kind, cpc, attempts, csv_file, cenv, cresult,
                   evars, rvars, lvars, mvars>>

\* wait_for_port: one TcpStream::connect that fails, and the sleep.
LOConnectFails ==
    /\ cpc = "wait_for_port"
    /\ attempts < MaxAttempts
    /\ attempts' = attempts + 1
    /\ UNCHANGED <<avars, tvars, kind, cpc, lo_proc, csv_file, cenv, cresult,
                   evars, rvars, lvars, mvars>>

\* wait_for_port returns true: a connection to the port succeeded.
LOConnected ==
    /\ cpc = "wait_for_port"
    /\ cenv' = Append(cenv, Answer("connected", OkUnit))
    /\ cpc' = "run_uno_convert"
    /\ UNCHANGED <<avars, tvars, kind, lo_proc, attempts, csv_file, cresult,
                   evars, rvars, lvars, mvars>>

LOTimeout_RunsScriptAnyway ==
    /\ cpc = "wait_for_port"
    /\ cenv' = Append(cenv, Answer("connected", Err("timeout")))
    /\ cpc' = "run_uno_convert"
    /\ UNCHANGED <<avars, tvars, kind, lo_proc, attempts, csv_file, cresult,
                   evars, rvars, lvars, mvars>>

LOTimeout_NoKill ==
    /\ cpc = "wait_for_port"
    /\ cenv' = Append(cenv, Answer("connected", Err("timeout")))
    /\ cresult' = Some(Err("LibreOffice failed to start listening"))
    /\ cpc' = "returned"
    /\ UNCHANGED <<avars, tvars, kind, lo_proc, attempts, csv_file, evars, rvars, lvars, mvars>>

\* wait_for_port returns false after the timeout: the kill and the return.
LOTimeout ==
    /\ cpc = "wait_for_port"
    /\ cenv' = Append(cenv, Answer("connected", Err("timeout")))
    /\ lo_proc' = kill(lo_proc)
    /\ cresult' = Some(Err("LibreOffice failed to start listening"))
    /\ cpc' = "returned"
    /\ UNCHANGED <<avars, tvars, kind, attempts, csv_file, evars, rvars, lvars, mvars>>

\* let result = self.run_uno_convert(xlsx_path, csv_path)
LORunUno ==
    /\ cpc = "run_uno_convert"
    /\ \E env \in UnoEnvSet : \E made \in BOOLEAN :
          /\ cenv' = Append(cenv, Answer("uno", run_uno_convert(env)))
          /\ cresult' = Some(run_uno_convert(env))
          /\ csv_file' = (uno_ran(env) /\ made)
    /\ cpc' = "cleanup"
    /\ UNCHANGED <<avars, tvars, kind, lo_proc, attempts, evars, rvars, lvars, mvars>>

\* let _ = lo_proc.kill()
LOKill ==
    /\ cpc = "cleanup"
    /\ lo_proc' = kill(lo_proc)
    /\ cpc' = "wait"
    /\ UNCHANGED <<avars, tvars, kind, attempts, csv_file, cenv, cresult,
                   evars, rvars, lvars, mvars>>

\* let _ = lo_proc.wait(), and the `?` on the result in xlsx_to_csv.
LOWait ==
    /\ cpc = "wait"
    /\ lo_proc' = wait(lo_proc)
    /\ IF unwrap(cresult).ok
       THEN cpc' = "check" /\ cresult' = None
       ELSE cpc' = "returned" /\ UNCHANGED cresult
    /\ UNCHANGED <<avars, tvars, kind, attempts, csv_file, cenv, evars, rvars, lvars, mvars>>

ExistsCheck_TrustsExit ==
    /\ cpc = "check"
    /\ cresult' = Some(OkUnit)
    /\ cpc' = "returned"
    /\ UNCHANGED <<avars, tvars, kind, lo_proc, attempts, csv_file, cenv,
                   evars, rvars, lvars, mvars>>

\* xlsx_to_csv: if csv_path.exists() { Ok(csv_path) } else { Err(..) }
ExistsCheck ==
    /\ cpc = "check"
    /\ cresult' = IF csv_file THEN Some(OkUnit)
                  ELSE Some(Err("CSV file not created: " \o CsvPathDebug))
    /\ cpc' = "returned"
    /\ UNCHANGED <<avars, tvars, kind, lo_proc, attempts, csv_file, cenv,
                   evars, rvars, lvars, mvars>>

NextConvert ==
    \/ GnumericRun
    \/ LOSpawn
    \/ LOExits
    \/ LOConnectFails
    \/ LOConnected
    \/ LOTimeout
    \/ LORunUno
    \/ LOKill
    \/ LOWait
    \/ ExistsCheck

SpecConvert == InitConvert /\ [][NextConvert]_vars

\* ------------------------------------------------------------------------
\* tui/state.rs and tui/app.rs: the state of the terminal interface.
\* Indices (filtered_indices, the selection) count from 0, as in the code.
\* ------------------------------------------------------------------------
UpperCase ==
    <<"A", "B", "C", "D", "E", "F", "G", "H", "I", "J", "K", "L", "M",
      "N", "O", "P", "Q", "R", "S", "T", "U", "V", "W", "X", "Y", "Z">>

LowerCase ==
    <<"a", "b", "c", "d", "e", "f", "g", "h", "i", "j", "k", "l", "m",
      "n", "o", "p", "q", "r", "s", "t", "u", "v", "w", "x", "y", "z">>

\* char::to_lowercase, for ASCII
lower_char(c) ==
    IF \E i \in 1..26 : UpperCase[i] = c
    THEN LowerCase[CHOOSE i \in 1..26 : UpperCase[i] = c]
    ELSE c

\* str::to_lowercase
to_lowercase(s) == [ i \in 1..Len(s) |-> lower_char(s[i]) ]

\* str::contains
contains(hay, needle) ==
    \E k \in 0..(Len(hay) - Len(needle)) :
        \A j \in 1..Len(needle) : hay[k + j] = needle[j]

\* TestResult::is_pass
is_pass(r) == r.status = "pass"

\* TestResult::is_fail
is_fail(r) == r.status = "fail"

\* ActivePanel::next
panel_next(p) ==
    CASE p = "Results" -> "Details"
      [] p = "Details" -> "Stats"
      [] p = "Stats" -> "Results"

\* ActivePanel::prev
panel_prev(p) ==
    CASE p = "Results" -> "Stats"
      [] p = "Details" -> "Results"
      [] p = "Stats" -> "Details"

FilterModes == { "All", "Passed", "Failed" }

\* App::new
App_new(total) ==
    [ results |-> <<>>, current_test |-> 0, total_tests |-> total,
      running |-> TRUE, done |-> FALSE, passed |-> 0, failed |-> 0,
      skipped |-> 0, active_panel |-> "Results", filter_mode |-> "All",
      selected |-> None, filtered_indices |-> <<>>,
      input_mode |-> "Normal", search_query |-> <<>> ]

passes_filter(a, r) ==
    CASE a.filter_mode = "All" -> TRUE
      [] a.filter_mode = "Passed" -> is_pass(r)
      [] a.filter_mode = "Failed" -> is_fail(r)

passes_search(a, r) ==
    LET query_lower == to_lowercase(a.search_query)
    IN  query_lower = <<>> \/ contains(to_lowercase(r.name), query_lower)

\* .enumerate().filter(..).map(|(i, _)| i) of the first n results
RECURSIVE kept_indices(_, _)
kept_indices(a, n) ==
    IF n = 0 THEN <<>>
    ELSE LET r == a.results[n]
             rest == kept_indices(a, n - 1)
         IN  IF passes_filter(a, r) /\ passes_search(a, r)
             THEN Append(rest, n - 1)
             ELSE rest

\* .rev().collect()
rev(s) == [ i \in 1..Len(s) |-> s[Len(s) + 1 - i] ]

update_filtered_indices_OldestFirst(a) ==
    [a EXCEPT !.filtered_indices = kept_indices(a, Len(a.results))]

\* App::update_filtered_indices
update_filtered_indices(a) ==
    [a EXCEPT !.filtered_indices = rev(kept_indices(a, Len(a.results)))]

add_result_CountsAsPassed(a, r) ==
    LET counted == [a EXCEPT !.passed = @ + 1]
        pushed == [counted EXCEPT !.results = Append(@, r),
                                  !.current_test = @ + 1]
        updated == update_filtered_indices(pushed)
    IN  IF updated.selected = None /\ updated.filtered_indices # <<>>
        THEN [updated EXCEPT !.selected = Some(0)]
        ELSE updated

\* App::add_result
add_result(a, r) ==
    LET counted ==
            CASE r.status = "pass" -> [a EXCEPT !.passed = @ + 1]
              [] r.status = "fail" -> [a EXCEPT !.failed = @ + 1]
              [] r.status = "skip" -> [a EXCEPT !.skipped = @ + 1]
        pushed == [counted EXCEPT !.results = Append(@, r),
                                  !.current_test = @ + 1]
        updated == update_filtered_indices(pushed)
    IN  IF updated.selected = None /\ updated.filtered_indices # <<>>
        THEN [updated EXCEPT !.selected = Some(0)]
        ELSE updated

\* App::mark_done
mark_done(a) == [a EXCEPT !.running = FALSE, !.done = TRUE]

\* App::enter_search_mode
enter_search_mode(a) == [a EXCEPT !.input_mode = "Search"]

exit_search_mode_KeepsQuery(a) ==
    LET updated == update_filtered_indices([a EXCEPT !.input_mode = "Normal"])
    IN  IF updated.filtered_indices # <<>>
        THEN [updated EXCEPT !.selected = Some(0)]
        ELSE updated

\* App::exit_search_mode
exit_search_mode(a) ==
    LET updated == update_filtered_indices(
                       [a EXCEPT !.input_mode = "Normal",
                                 !.search_query = <<>>])
    IN  IF updated.filtered_indices # <<>>
        THEN [updated EXCEPT !.selected = Some(0)]
        ELSE updated

search_push_KeepsSelection(a, c) ==
    update_filtered_indices([a EXCEPT !.search_query = Append(@, c)])

\* App::search_push
search_push(a, c) ==
    LET updated == update_filtered_indices(
                       [a EXCEPT !.search_query = Append(@, c)])
    IN  IF updated.filtered_indices = <<>>
        THEN [updated EXCEPT !.selected = None]
        ELSE [updated EXCEPT !.selected = Some(0)]

\* String::pop
pop(s) == IF s = <<>> THEN s ELSE SubSeq(s, 1, Len(s) - 1)

\* App::search_pop
search_pop(a) ==
    LET updated == update_filtered_indices(
                       [a EXCEPT !.search_query = pop(@)])
    IN  IF updated.filtered_indices # <<>>
        THEN [updated EXCEPT !.selected = Some(0)]
        ELSE updated

set_filter_KeepsSelection(a, md) ==
    IF a.filter_mode # md
    THEN update_filtered_indices([a EXCEPT !.filter_mode = md])
    ELSE a

\* App::set_filter
set_filter(a, md) ==
    IF a.filter_mode # md
    THEN LET updated == update_filtered_indices([a EXCEPT !.filter_mode = md])
         IN  IF updated.filtered_indices = <<>>
             THEN [updated EXCEPT !.selected = None]
             ELSE [updated EXCEPT !.selected = Some(0)]
    ELSE a

\* usize::saturating_sub(1)
saturating_sub1(n) == IF n = 0 THEN 0 ELSE n - 1

\* usize::min
min(a, b) == IF a < b THEN a ELSE b

\* App::select_previous
select_previous(a) ==
    IF a.filtered_indices = <<>> THEN a
    ELSE [a EXCEPT !.selected =
              Some(IF @ = None THEN 0 ELSE saturating_sub1(unwrap(@)))]

select_next_Unclamped(a) ==
    IF a.filtered_indices = <<>> THEN a
    ELSE [a EXCEPT !.selected =
              Some(IF @ = None THEN 0 ELSE unwrap(@) + 1)]

\* App::select_next
select_next(a) ==
    IF a.filtered_indices = <<>> THEN a
    ELSE LET max_idx == saturating_sub1(Len(a.filtered_indices))
         IN  [a EXCEPT !.selected =
                  Some(IF @ = None THEN 0 ELSE min(unwrap(@) + 1, max_idx))]

\* App::filtered_results
filtered_results(a) ==
    LET inside == SelectSeq(a.filtered_indices,
                            LAMBDA i : i < Len(a.results))
    IN  [ k \in 1..Len(inside) |-> a.results[inside[k] + 1] ]

\* App::selected_result
selected_result(a) ==
    IF a.selected = None THEN None
    ELSE IF unwrap(a.selected) >= Len(a.filtered_indices) THEN None
    ELSE IF a.filtered_indices[unwrap(a.selected) + 1] >= Len(a.results)
    THEN None
    ELSE Some(a.results[a.filtered_indices[unwrap(a.selected) + 1] + 1])

\* App::next_panel
next_panel(a) == [a EXCEPT !.active_panel = panel_next(@)]

\* App::prev_panel
prev_panel(a) == [a EXCEPT !.active_panel = panel_prev(@)]

\* ------------------------------------------------------------------------
\* An App after App::new, and any sequence of calls of the methods that
\* add results, filter, search and move the selection
\* ------------------------------------------------------------------------
MaxResults == 3

MaxQuery == 2

\* Results handed to add_result: one of each variant; the names differ in
\* case and share letters.
AppResultPool ==
    { Pass(TestCase(<<"a", ".", "B">>, <<"=", "1">>, 1 * Scale), 1 * Scale),
      Fail(TestCase(<<"b", ".", "b">>, <<"=", "1">>, 1 * Scale), None, Some("e1")),
      Skip(SkipCase(<<"A", ".", "a">>, <<"r">>)) }

\* Characters typed into the search query.
QueryChars == { "a", "B" }

\* One call of a method of App: the method, its argument, and the App it
\* leaves.
Applied(name, arg, next) ==
    /\ app' = next
    /\ op' = [name |-> name, arg |-> arg]
    /\ before' = app
    /\ UNCHANGED <<evars, rvars, lvars, mvars, cvars, tvars>>

InitApp ==
    /\ TuiIdle
    /\ ExtractIdle
    /\ RunnerIdle
    /\ LoadIdle
    /\ MainIdle
    /\ ConvertIdle
    /\ app = App_new(MaxResults)
    /\ op = [name |-> "new", arg |-> <<>>]
    /\ before = app

AppAddResult ==
    /\ Len(app.results) < MaxResults
    /\ \E r \in AppResultPool : Applied("add_result", r, add_result(app, r))

AppSetFilter ==
    \E md \in FilterModes : Applied("set_filter", md, set_filter(app, md))

AppEnterSearchMode ==
    Applied("enter_search_mode", <<>>, enter_search_mode(app))

AppExitSearchMode ==
    Applied("exit_search_mode", <<>>, exit_search_mode(app))

AppSearchPush ==
    /\ Len(app.search_query) < MaxQuery
    /\ \E c \in QueryChars : Applied("search_push", c, search_push(app, c))

AppSearchPop == Applied("search_pop", <<>>, search_pop(app))

AppSelectPrevious == Applied("select_previous", <<>>, select_previous(app))

AppSelectNext == Applied("select_next", <<>>, select_next(app))

NextApp ==
    \/ AppAddResult
    \/ AppSetFilter
    \/ AppEnterSearchMode
    \/ AppExitSearchMode
    \/ AppSearchPush
    \/ AppSearchPop
    \/ AppSelectPrevious
    \/ AppSelectNext

SpecApp == InitApp /\ [][NextApp]_vars

\* ------------------------------------------------------------------------
\* tui/mod.rs and tui.rs: the terminal interface.  The source holds the
\* module twice: as the directory tui/ (run_tests and run_app of
\* tui/mod.rs) and as the single file tui.rs (run_app); monolith tells
\* which of the two is running.
\* ------------------------------------------------------------------------
MaxPending == 1

MaxReruns == 2

MaxTyped == 1

\* KeyCode::Char(c)
CharKeys == { "q", "/", "s", "p", "b", "c", "k", "j", "1", "2", "3" }

Press(code) == [kind |-> "Press", code |-> code]

\* The events the terminal delivers: key presses, the release of a key, and
\* an event that is no key event.
EventPool ==
    { Press(c) : c \in { "q", "/", "s", "p", "b", "Esc", "Enter", "Down",
                         "Backspace" } }
    \cup { [kind |-> "Release", code |-> "q"], [kind |-> "Resize", code |-> ""] }

\* key.kind == KeyEventKind::Press && key.code == KeyCode::Char('q')
is_quit(ev) == ev.kind = "Press" /\ ev.code = "q"

\* for result in results { app.add_result(result) }
RECURSIVE add_results(_, _)
add_results(a, rs) ==
    IF rs = <<>> THEN a
    ELSE add_results(add_result(a, Head(rs)), Tail(rs))

\* App::reset, called before a rerun: the App is as App::new leaves it.
reset(a, perf, batch) == App_new(a.total_tests)

\* run_app, the arms of the interactive loop that change the App alone.
handle_key(a, ev) ==
    IF ev.kind # "Press" THEN a
    ELSE IF a.input_mode = "Normal"
    THEN CASE ev.code = "/" -> enter_search_mode(a)
           [] ev.code \in { "Up", "k" } -> select_previous(a)
           [] ev.code \in { "Down", "j" } -> select_next(a)
           [] ev.code = "Tab" -> next_panel(a)
           [] ev.code = "BackTab" -> prev_panel(a)
           [] ev.code = "1" -> set_filter(a, "All")
           [] ev.code = "2" -> set_filter(a, "Passed")
           [] ev.code = "3" -> set_filter(a, "Failed")
           [] OTHER -> a
    ELSE CASE ev.code = "Esc" -> exit_search_mode(a)
           [] ev.code = "Enter" -> [a EXCEPT !.input_mode = "Normal"]
           [] ev.code = "Backspace" -> search_pop(a)
           [] ev.code \in CharKeys -> search_push(a, ev.code)
           [] ev.code = "Up" -> select_previous(a)
           [] ev.code = "Down" -> select_next(a)
           [] OTHER -> a

is_exit_InAnyInputMode(a, ev) ==
    /\ ev.kind = "Press"
    /\ ev.code \in { "q", "Esc" } \/ (ev.code = "Enter" /\ a.done)

\* The arms of the loop that return from run_app.
is_exit(a, ev) ==
    /\ ev.kind = "Press"
    /\ a.input_mode = "Normal"
    /\ ev.code \in { "q", "Esc" } \/ (ev.code = "Enter" /\ a.done)

is_rerun_BeforeDone(a, ev) ==
    /\ ~monolith
    /\ ev.kind = "Press"
    /\ a.input_mode = "Normal"
    /\ ev.code \in { "p", "b" }

\* The arms of the loop that rerun the tests (tui/mod.rs only).
is_rerun(a, ev) ==
    /\ ~monolith
    /\ ev.kind = "Press"
    /\ a.input_mode = "Normal"
    /\ ev.code \in { "p", "b" }
    /\ a.done

\* The arm of the loop that saves the results (tui/mod.rs only).
is_save(a, ev) ==
    /\ ~monolith
    /\ ev.kind = "Press"
    /\ a.input_mode = "Normal"
    /\ ev.code = "s"
    /\ a.done

\* The keys the loop tells apart by app.done: Enter, 's', 'p' and 'b'.
GatedKeys == { "Enter", "s", "p", "b" }

\* What the interactive loop read last: an event, as a press of 'q', a
\* press of Esc, a press of one of the keys guarded by app.done, or any
\* other event.
KeyRead(ev) ==
    [ name |-> "key",
      arg |-> IF ev.kind # "Press" THEN "other"
              ELSE IF ev.code \in { "q", "Esc" } THEN ev.code
              ELSE IF ev.code \in GatedKeys THEN "gated"
              ELSE "other" ]

\* What event::poll and event::read deliver: the oldest pending event, or
\* one that arrives during the poll.
Delivered == IF keys # <<>> THEN { Head(keys) } ELSE EventPool

Consumed == keys' = IF keys # <<>> THEN Tail(keys) ELSE keys

\* The test cases and the skip cases of the runner handed to tui::run.
TuiCaseLists ==
    LET first == CHOOSE tc \in CasePool : tc.expected = 1 * Scale
        other == CHOOSE tc \in CasePool : tc # first
    IN  { <<>>, << first >>, << first, other >> }

TuiSkipLists == { <<>>, << CHOOSE sc \in SkipPool : sc.name[1] = "a" >> }

\* What the environment answers to run_test, to run_perf_test and to
\* run_batch in a run of the terminal interface.
TuiSeqEnvs == MainSeqEnvs

\* A rerun from the loop is given one answer: every case evaluates to 1.
TuiPerfEnvs ==
    { [EnvOk EXCEPT !.stdout = <<"a", "s", "s", "u", "m", "p", "t", "i", "o", "n", "s", ".", "t", "e", "s", "t", "_", "r", "e", "s", "u", "l", "t", " ", "=", " ", "1", "\n">>] }

TuiBatchEnvs ==
    { [EnvOk EXCEPT !.csv = Ok(<< Ok(<<"t", "e", "s", "t", "_", "0", ",", "1">>), Ok(<<"t", "e", "s", "t", "_", "1", ",", "1">>) >>)] }

InitTui ==
    /\ ExtractIdle
    /\ LoadIdle
    /\ ConvertIdle
    /\ engine = Some("Gnumeric")
    /\ binary = TRUE
    /\ mpc = "tui"
    /\ total_failed = 0
    /\ ran = <<>>
    /\ exit_code = "none"
    /\ test_cases \in TuiCaseLists
    /\ skip_cases \in TuiSkipLists
    /\ mode = "none"
    /\ rpc = "idle"
    /\ results = <<>>
    /\ idx = 0
    /\ slots = <<>>
    /\ completed = <<>>
    /\ envs = [ i \in 1..Len(test_cases) |-> None ]
    /\ benv = None
    /\ calls = <<>>
    /\ app = <<>>
    /\ op = <<>>
    /\ before = <<>>
    /\ monolith \in BOOLEAN
    /\ tpc = "start"
    /\ perf_mode = FALSE
    /\ batch_mode = FALSE
    /\ keys = <<>>
    /\ observed = None
    /\ reruns = 0
    /\ tui_ret = "none"

TuiStart_NoSkipResults ==
    /\ tpc = "start"
    /\ app' = App_new(total_tests)
    /\ calls' = calls
    /\ mode' = "normal"
    /\ idx' = 0
    /\ tpc' = "poll"
    /\ UNCHANGED <<evars, lvars, mvars, cvars, op, before, test_cases,
                   skip_cases, rpc, results, slots, completed, envs, benv,
                   monolith, perf_mode, batch_mode, keys, observed, reruns,
                   tui_ret>>

\* run_app: App::new(total); tui/mod.rs then enters run_tests in normal
\* mode, which adds the skip results.
TuiStart ==
    /\ tpc = "start"
    /\ app' = IF monolith THEN App_new(total_tests)
              ELSE add_results(App_new(total_tests), skip_results(skip_cases))
    /\ calls' = IF monolith THEN calls ELSE calls \o skip_calls(skip_cases)
    /\ mode' = "normal"
    /\ idx' = 0
    /\ tpc' = "poll"
    /\ UNCHANGED <<evars, lvars, mvars, cvars, op, before, test_cases,
                   skip_cases, rpc, results, slots, completed, envs, benv,
                   monolith, perf_mode, batch_mode, keys, observed, reruns,
                   tui_ret>>

\* The head of the loop over the test cases, no quit delivered: the draw,
\* and runner.run_test(&test_case) is entered and issues its first command.
TuiCaseStart ==
    /\ tpc = "poll"
    /\ idx < Len(test_cases)
    /\ \/ keys = <<>> /\ UNCHANGED keys
       \/ \E ev \in Delivered : ~is_quit(ev) /\ Consumed
    /\ \E env \in TuiSeqEnvs :
          /\ envs' = [envs EXCEPT ![idx + 1] = Some(env)]
          /\ calls' = calls \o SubSeq(run_test_calls(idx + 1, env), 1, 1)
    /\ tpc' = "case"
    /\ UNCHANGED <<evars, lvars, mvars, cvars, avars, test_cases, skip_cases,
                   mode, rpc, results, idx, slots, completed, benv, monolith,
                   perf_mode, batch_mode, observed, reruns, tui_ret>>

TuiQuit_RunsOneMore ==
    /\ tpc = "poll"
    /\ idx < Len(test_cases)
    /\ \E ev \in Delivered : is_quit(ev) /\ Consumed
    /\ observed' = Some(Len(calls))
    /\ \E env \in TuiSeqEnvs :
          /\ envs' = [envs EXCEPT ![idx + 1] = Some(env)]
          /\ calls' = calls \o SubSeq(run_test_calls(idx + 1, env), 1, 1)
    /\ tpc' = "case"
    /\ UNCHANGED <<evars, lvars, mvars, cvars, avars, test_cases, skip_cases,
                   mode, rpc, results, idx, slots, completed, benv, monolith,
                   perf_mode, batch_mode, reruns, tui_ret>>

\* The head of the loop over the test cases, 'q' delivered: tui.rs returns
\* Ok(false) from run_app; tui/mod.rs returns Ok(false) from run_tests, and
\* run_app, which does not look at it, enters the interactive loop.
TuiQuit ==
    /\ tpc = "poll"
    /\ idx < Len(test_cases)
    /\ \E ev \in Delivered : is_quit(ev) /\ Consumed
    /\ observed' = Some(Len(calls))
    /\ IF monolith
       THEN tui_ret' = "Ok(false)" /\ tpc' = "returned"
       ELSE tui_ret' = tui_ret /\ tpc' = "loop"
    /\ UNCHANGED <<evars, rvars, lvars, mvars, cvars, avars, monolith,
                   perf_mode, batch_mode, reruns>>

\* An event arrives while run_test is running.
TuiKeyWhileRunning ==
    /\ tpc = "case"
    /\ Len(keys) < MaxPending
    /\ \E ev \in EventPool : keys' = Append(keys, ev)
    /\ UNCHANGED <<evars, rvars, lvars, mvars, cvars, avars, monolith, tpc,
                   perf_mode, batch_mode, observed, reruns, tui_ret>>

\* run_test runs to its end and returns; app.add_result(result); the draw.
TuiCaseDone ==
    /\ tpc = "case"
    /\ LET env == unwrap(envs[idx + 1])
           issued == run_test_calls(idx + 1, env)
       IN  /\ app' = add_result(app, RunTestTable[test_cases[idx + 1]][env])
           /\ calls' = calls \o SubSeq(issued, 2, Len(issued))
    /\ idx' = idx + 1
    /\ tpc' = "poll"
    /\ UNCHANGED <<evars, lvars, mvars, cvars, op, before, test_cases,
                   skip_cases, mode, rpc, results, slots, completed, envs,
                   benv, monolith, perf_mode, batch_mode, keys, observed,
                   reruns, tui_ret>>

\* The loop over the test cases ends: app.mark_done().
TuiRunDone ==
    /\ tpc = "poll"
    /\ idx = Len(test_cases)
    /\ app' = mark_done(app)
    /\ tpc' = "loop"
    /\ UNCHANGED <<evars, rvars, lvars, mvars, cvars, op, before, monolith,
                   perf_mode, batch_mode, keys, observed, reruns, tui_ret>>

\* The interactive loop: an event that changes the App alone, or nothing.
TuiLoopKey ==
    /\ tpc = "loop"
    /\ \E ev \in Delivered :
          /\ ~is_exit(app, ev)
          /\ ~is_rerun(app, ev)
          /\ ~is_save(app, ev)
          /\ (app.input_mode = "Search" /\ ev.kind = "Press"
                /\ ev.code \in CharKeys)
                => Len(app.search_query) < MaxTyped
          /\ app' = handle_key(app, ev)
          /\ op' = KeyRead(ev)
          /\ Consumed
    /\ UNCHANGED <<evars, rvars, lvars, mvars, cvars, before, monolith,
                   tpc, perf_mode, batch_mode, observed, reruns, tui_ret>>

\* The interactive loop: 'q' or Esc, or Enter once the run is done, in
\* normal input mode: return Ok(app.failed == 0).
TuiLoopExit ==
    /\ tpc = "loop"
    /\ \E ev \in Delivered : is_exit(app, ev) /\ op' = KeyRead(ev) /\ Consumed
    /\ tui_ret' = IF app.failed = 0 THEN "Ok(true)" ELSE "Ok(false)"
    /\ tpc' = "returned"
    /\ UNCHANGED <<evars, rvars, lvars, mvars, cvars, app, before, monolith,
                   perf_mode, batch_mode, observed, reruns>>

\* The interactive loop, 's' once the run is done: app.save_to_json()
\* writes the results to a file; the status line, which is all it changes
\* in the App, is not part of the state.
TuiLoopSave ==
    /\ tpc = "loop"
    /\ \E ev \in Delivered : is_save(app, ev) /\ Consumed
    /\ op' = [ name |-> "save", arg |-> "gated" ]
    /\ UNCHANGED <<evars, rvars, lvars, mvars, cvars, app, before, monolith,
                   tpc, perf_mode, batch_mode, observed, reruns, tui_ret>>

\* The interactive loop, 'b' once the run is done, batch mode off: the App
\* is reset and run_tests runs in batch mode, from call to return.
TuiRerunBatch ==
    /\ tpc = "loop"
    /\ reruns < MaxReruns
    /\ ~batch_mode
    /\ \E ev \in Delivered :
          is_rerun(app, ev) /\ ev.code = "b" /\ op' = KeyRead(ev) /\ Consumed
    /\ batch_mode' = TRUE
    /\ perf_mode' = FALSE
    /\ reruns' = reruns + 1
    /\ mode' = "batch"
    /\ LET fresh == reset(app, FALSE, TRUE)
       IN  IF test_cases = <<>>
           THEN /\ app' = mark_done(add_results(fresh,
                              run_batch(skip_cases, test_cases, EnvOk)))
                /\ calls' = calls \o run_batch_calls(skip_cases, test_cases, EnvOk)
                /\ benv' = None
           ELSE \E env \in TuiBatchEnvs :
                   /\ app' = mark_done(add_results(fresh,
                                 run_batch(skip_cases, test_cases, env)))
                   /\ calls' = calls \o run_batch_calls(skip_cases, test_cases, env)
                   /\ benv' = Some(env)
    /\ UNCHANGED <<evars, lvars, mvars, cvars, before, test_cases,
                   skip_cases, rpc, results, idx, slots, completed, envs,
                   monolith, tpc, observed, tui_ret>>

TuiRerunPerf_KeepsBatchFlag ==
    /\ tpc = "loop"
    /\ reruns < MaxReruns
    /\ ~perf_mode
    /\ \E ev \in Delivered :
          is_rerun(app, ev) /\ ev.code = "p" /\ op' = KeyRead(ev) /\ Consumed
    /\ perf_mode' = TRUE
    /\ batch_mode' = batch_mode
    /\ reruns' = reruns + 1
    /\ mode' = "perf"
    /\ \E es \in [1..Len(test_cases) -> TuiPerfEnvs] :
          /\ app' = mark_done(add_results(reset(app, TRUE, FALSE),
                        run_perf_parallel(skip_cases, test_cases, es)))
          /\ calls' = calls \o skip_calls(skip_cases)
                            \o calls_of([ i \in 1..Len(es) |->
                                            run_perf_test_calls(i, es[i]) ])
          /\ envs' = [ i \in 1..Len(es) |-> Some(es[i]) ]
    /\ UNCHANGED <<evars, lvars, mvars, cvars, before, test_cases,
                   skip_cases, rpc, results, idx, slots, completed, benv,
                   monolith, tpc, observed, tui_ret>>

\* The interactive loop, 'p' once the run is done, perf mode off: the App
\* is reset and run_tests runs in perf mode, from call to return.
TuiRerunPerf ==
    /\ tpc = "loop"
    /\ reruns < MaxReruns
    /\ ~perf_mode
    /\ \E ev \in Delivered :
          is_rerun(app, ev) /\ ev.code = "p" /\ op' = KeyRead(ev) /\ Consumed
    /\ perf_mode' = TRUE
    /\ batch_mode' = FALSE
    /\ reruns' = reruns + 1
    /\ mode' = "perf"
    /\ \E es \in [1..Len(test_cases) -> TuiPerfEnvs] :
          /\ app' = mark_done(add_results(reset(app, TRUE, FALSE),
                        run_perf_parallel(skip_cases, test_cases, es)))
          /\ calls' = calls \o skip_calls(skip_cases)
                            \o calls_of([ i \in 1..Len(es) |->
                                            run_perf_test_calls(i, es[i]) ])
          /\ envs' = [ i \in 1..Len(es) |-> Some(es[i]) ]
    /\ UNCHANGED <<evars, lvars, mvars, cvars, before, test_cases,
                   skip_cases, rpc, results, idx, slots, completed, benv,
                   monolith, tpc, observed, tui_ret>>

\* The interactive loop, 'p' with perf mode on or 'b' with batch mode on,
\* once the run is done: both modes are off, the App is reset and run_tests
\* is entered in normal mode and adds the skip results.
TuiRerunNormal ==
    /\ tpc = "loop"
    /\ reruns < MaxReruns
    /\ \E ev \in Delivered :
          /\ is_rerun(app, ev)
          /\ (ev.code = "p" /\ perf_mode) \/ (ev.code = "b" /\ batch_mode)
          /\ op' = KeyRead(ev)
          /\ Consumed
    /\ perf_mode' = FALSE
    /\ batch_mode' = FALSE
    /\ reruns' = reruns + 1
    /\ mode' = "normal"
    /\ app' = add_results(reset(app, FALSE, FALSE), skip_results(skip_cases))
    /\ calls' = calls \o skip_calls(skip_cases)
    /\ idx' = 0
    /\ envs' = [ i \in 1..Len(test_cases) |-> None ]
    /\ tpc' = "poll"
    /\ UNCHANGED <<evars, lvars, mvars, cvars, before, test_cases,
                   skip_cases, rpc, results, slots, completed, benv, monolith,
                   observed, tui_ret>>

\* terminal.draw, event::poll or event::read fails: run_app returns the
\* error.
TuiIoError ==
    /\ tpc \in { "poll", "loop" }
    /\ tui_ret' = "Err"
    /\ tpc' = "returned"
    /\ op' = [ name |-> "io_error", arg |-> "other" ]
    /\ UNCHANGED <<evars, rvars, lvars, mvars, cvars, app, before, monolith,
                   perf_mode, batch_mode, keys, observed, reruns>>

\* main.rs, run_tui_mode: the exit code of what tui::run returned.
TuiExit ==
    /\ tpc = "returned"
    /\ exit_code' = IF tui_ret = "Ok(true)" THEN "SUCCESS" ELSE "FAILURE"
    /\ tpc' = "exited"
    /\ UNCHANGED <<evars, rvars, lvars, cvars, avars, engine, binary, mpc,
                   total_failed, ran, monolith, perf_mode, batch_mode, keys,
                   observed, reruns, tui_ret>>

NextTui ==
    \/ TuiStart
    \/ TuiCaseStart
    \/ TuiQuit
    \/ TuiKeyWhileRunning
    \/ TuiCaseDone
    \/ TuiRunDone
    \/ TuiLoopKey
    \/ TuiLoopExit
    \/ TuiLoopSave
    \/ TuiRerunBatch
    \/ TuiRerunPerf
    \/ TuiRerunNormal
    \/ TuiIoError
    \/ TuiExit

SpecTui == InitTui /\ [][NextTui]_vars

\* ------------------------------------------------------------------------
\* Properties of the extraction
\* ------------------------------------------------------------------------
\* The scalars of a specification, by <<section, case id>>.
SpecKeys(sp) ==
    { k \in Keys : /\ k[1] \in DOMAIN sp
                   /\ sp[k[1]].kind = "ScalarGroup"
                   /\ k[2] \in DOMAIN sp[k[1]].scalars }

ScalarOf(sp, k) == sp[k[1]].scalars[k[2]]

\* "<section>.<case-id>"
FullName(k) == k[1] \o <<".">> \o k[2]

\* A section named scenarios or whose name begins with an underscore.
Reserved(k) == k[1] = Scenarios \/ Head(k[1]) = "_"

SkipKeys(sp) ==
    { k \in SpecKeys(sp) : ~Reserved(k) /\ ScalarOf(sp, k).skip # None }

RunnableKeys(sp) ==
    { k \in SpecKeys(sp) : /\ ~Reserved(k)
                           /\ ScalarOf(sp, k).skip = None
                           /\ ScalarOf(sp, k).formula # None
                           /\ ScalarOf(sp, k).expected # None }

\* The scalars of extractable sections that have neither skip nor both of
\* formula and expected.
IncompleteKeys(sp) ==
    { k \in SpecKeys(sp) : /\ ~Reserved(k)
                           /\ ScalarOf(sp, k).skip = None
                           /\ \/ ScalarOf(sp, k).formula = None
                              \/ ScalarOf(sp, k).expected = None }

CaseOfKey(sp, k) ==
    [ name |-> FullName(k),
      formula |-> ScalarOf(sp, k).formula[1],
      expected |-> ScalarOf(sp, k).expected[1] ]

SkipOfKey(sp, k) ==
    [ name |-> FullName(k), reason |-> ScalarOf(sp, k).skip[1] ]

\* seq lists each key of K exactly once, as the record Mk(k).
OnePerKey(seq, K, Mk(_)) ==
    \E o \in Orders(K) :
        /\ Len(o) = Len(seq)
        /\ \A i \in 1..Len(seq) : seq[i] = Mk(o[i])

CountNamed(seq, n) == Cardinality({i \in 1..Len(seq) : seq[i].name = n})

\* C1 (as stated): every scalar with skip set in an extractable section
\* yields exactly one SkipCase and no TestCase, and therefore no name is
\* returned by both extract_test_cases and extract_skip_cases.
C1_NoNameInBoth ==
    epc = "done" =>
        /\ \A k \in SkipKeys(spec) :
              /\ CountNamed(skips, FullName(k)) = 1
              /\ CountNamed(cases, FullName(k)) = 0
        /\ \A i \in 1..Len(cases) : \A j \in 1..Len(skips) :
              cases[i].name # skips[j].name

\* C1 (amended): the SkipCases are exactly one per scalar with skip set in
\* an extractable section, whatever its value, formula and expected are;
\* every TestCase comes from a scalar without skip; and a name returned by
\* both extractors comes from two different scalars whose section and case
\* id format to the same name.
C1_SkipScalarYieldsOneSkipCase ==
    epc = "done" =>
        /\ OnePerKey(skips, SkipKeys(spec), LAMBDA k : SkipOfKey(spec, k))
        /\ \A i \in 1..Len(cases) :
              \E k \in SpecKeys(spec) :
                  /\ ScalarOf(spec, k).skip = None
                  /\ ScalarOf(spec, k).formula # None
                  /\ ScalarOf(spec, k).expected # None
                  /\ cases[i] = CaseOfKey(spec, k)
        /\ \A i \in 1..Len(cases) : \A j \in 1..Len(skips) :
              cases[i].name = skips[j].name =>
                  \E k1 \in RunnableKeys(spec) : \E k2 \in SkipKeys(spec) :
                      /\ k1 # k2
                      /\ FullName(k1) = cases[i].name
                      /\ FullName(k2) = cases[i].name

\* A scalar with skip, value, formula and expected all set has been
\* extracted into a SkipCase and no TestCase.
C1_Witness ==
    /\ epc = "done"
    /\ \E k \in SkipKeys(spec) :
          /\ ScalarOf(spec, k).value # None
          /\ ScalarOf(spec, k).formula # None
          /\ ScalarOf(spec, k).expected # None
    /\ Len(skips) = 1
    /\ Len(cases) = 0

\* C2: the TestCases are exactly one per scalar without skip of an
\* extractable section that has both formula and expected, each named
\* "<section>.<case-id>" with the scalar's formula and expected value; a
\* scalar without skip that misses formula or expected adds neither a
\* TestCase nor a SkipCase.
C2_RunnableScalarYieldsOneTestCase ==
    /\ epc \in {"cases", "done"} =>
          OnePerKey(cases, RunnableKeys(spec), LAMBDA k : CaseOfKey(spec, k))
    /\ epc = "done" =>
          Len(cases) + Len(skips)
              = Cardinality(SpecKeys(spec))
                  - Cardinality({k \in SpecKeys(spec) : Reserved(k)})
                  - Cardinality(IncompleteKeys(spec))

\* A complete scalar and an incomplete one of extractable sections have
\* been extracted: one TestCase, no SkipCase.
C2_Witness ==
    /\ epc = "done"
    /\ Cardinality(RunnableKeys(spec)) = 1
    /\ Cardinality(IncompleteKeys(spec)) = 1
    /\ Len(cases) = 1
    /\ Len(skips) = 0

\* C3: the scalars of a section named scenarios or beginning with an
\* underscore add no TestCase and no SkipCase, whatever fields they set,
\* and the scalars of the other sections are all extracted.
C3_ReservedSectionsContributeNothing ==
    epc = "done" =>
        /\ Len(cases) = Cardinality(RunnableKeys(spec))
        /\ Len(skips) = Cardinality(SkipKeys(spec))
        /\ \A k \in SpecKeys(spec) :
              Reserved(k) =>
                  /\ \A i \in 1..Len(cases) : cases[i].name # FullName(k)
                  /\ \A j \in 1..Len(skips) : skips[j].name # FullName(k)

\* A reserved section with a complete scalar was extracted next to an
\* ordinary section, whose scalar is the only case returned.
C3_Witness ==
    /\ epc = "done"
    /\ \E k \in SpecKeys(spec) :
          /\ Reserved(k)
          /\ ScalarOf(spec, k).formula # None
          /\ ScalarOf(spec, k).expected # None
          /\ ScalarOf(spec, k).skip = None
    /\ Cardinality(RunnableKeys(spec)) = 1
    /\ Len(cases) = 1
    /\ Len(skips) = 0

\* ------------------------------------------------------------------------
\* Properties of the runner
\* ------------------------------------------------------------------------
NSkips == Len(skip_cases)

NCases == Len(test_cases)

Returned(m) == rpc = "returned" /\ mode = m

\* The first NSkips results are the Skip results of the skip cases, in order.
SkipsFirst ==
    \A i \in 1..NSkips :
        /\ i <= Len(results)
        /\ results[i].status = "skip"
        /\ results[i].name = skip_cases[i].name

\* After the Skip results comes one Pass or Fail per test case, in order.
OnePerCaseInOrder ==
    /\ Len(results) = NSkips + NCases
    /\ \A i \in 1..NCases :
          /\ results[NSkips + i].status \in {"pass", "fail"}
          /\ results[NSkips + i].name = test_cases[i].name

\* A step of the pipeline before result extraction failed.
StepFailed(env) ==
    \/ ~env.tempdir.ok
    \/ ~env.write.ok
    \/ ~env.spawn.ok
    \/ ~env.status.ok
    \/ ~env.convert.ok

\* C4: run_all and run_batch return the Skip results of all skip cases in
\* loaded order followed by exactly one result per test case in loaded
\* order, whatever the environment answered.
C4_SkipsThenCasesInLoadedOrder ==
    (Returned("normal") \/ Returned("batch")) =>
        SkipsFirst /\ OnePerCaseInOrder

\* run_batch returned after a failed shared step, with two different skip
\* cases and two different test cases loaded.
C4_Witness ==
    /\ Returned("batch")
    /\ NSkips = 2 /\ skip_cases[1] # skip_cases[2]
    /\ NCases = 2 /\ test_cases[1] # test_cases[2]
    /\ benv # None /\ StepFailed(benv[1])

\* C5: run_perf_parallel returns the Skip results and then the result of
\* each test case at the position of that case in the input list, in
\* whatever order the evaluations completed.
C5_ParallelPreservesInputOrder ==
    Returned("perf") =>
        /\ SkipsFirst
        /\ OnePerCaseInOrder
        /\ \A i \in 1..NCases : results[NSkips + i] = slots[i][1]

\* The second case completed before the first one, with different outcomes.
C5_Witness ==
    /\ Returned("perf")
    /\ NSkips = 1
    /\ completed = <<2, 1>>
    /\ test_cases[1] # test_cases[2]
    /\ slots[1][1].status # slots[2][1].status

\* The results built so far, in all three modes.
Produced ==
    { results[i] : i \in 1..Len(results) }
    \cup { slots[i][1] : i \in {j \in 1..Len(slots) : slots[j] # None} }

\* C6: every result produced for a test case carries the name, formula and
\* expected value of that case, and every Skip result the name and reason
\* of its skip case; in all three modes and at every moment of the run.
C6_ResultsCarryTheirCase ==
    /\ \A i \in 1..Len(results) :
          IF i <= NSkips
          THEN /\ results[i].status = "skip"
               /\ results[i].name = skip_cases[i].name
               /\ results[i].reason = << skip_cases[i].reason >>
          ELSE /\ results[i].status \in {"pass", "fail"}
               /\ results[i].name = test_cases[i - NSkips].name
               /\ results[i].formula = test_cases[i - NSkips].formula
               /\ results[i].expected = test_cases[i - NSkips].expected
    /\ \A i \in 1..Len(slots) :
          slots[i] # None =>
              /\ slots[i][1].status \in {"pass", "fail"}
              /\ slots[i][1].name = test_cases[i].name
              /\ slots[i][1].formula = test_cases[i].formula
              /\ slots[i][1].expected = test_cases[i].expected

\* A run returned a Skip, a Fail with an actual value and a Fail with an
\* error.
C6_Witness ==
    /\ Returned("normal")
    /\ NSkips = 1
    /\ NCases = 2
    /\ results[2].status = "fail" /\ results[2].actual # <<>>
    /\ results[3].status = "fail" /\ results[3].error # <<>>

\* C7: when a shared step of run_batch fails, run_batch returns the Skip
\* results followed by one Fail per test case, each without actual and all
\* with the same error message.
C7_SharedFailureFailsEveryCase ==
    (Returned("batch") /\ benv # None /\ StepFailed(benv[1])) =>
        /\ SkipsFirst
        /\ Len(results) = NSkips + NCases
        /\ \A i \in 1..NCases :
              /\ results[NSkips + i].status = "fail"
              /\ results[NSkips + i].name = test_cases[i].name
              /\ results[NSkips + i].actual = <<>>
              /\ results[NSkips + i].error # <<>>
              /\ results[NSkips + i].error = results[NSkips + 1].error

\* The oracle conversion of a batch of two cases failed.
C7_Witness ==
    /\ Returned("batch")
    /\ NCases = 2
    /\ NSkips = 1
    /\ benv # None
    /\ ~benv[1].convert.ok

\* The rows of the scanned output that give a value to case index i (from
\* 0): the label is test_<i> or assumptions.test_<i> and the second cell
\* is a number.
RowsOf(lines, i) ==
    { k \in 1..Len(lines) :
        /\ lines[k].ok
        /\ Len(csv_cells(lines[k].v)) >= 2
        /\ \E p \in {BatchPrefixLong, BatchPrefix} :
              LET rest == strip_prefix(csv_cells(lines[k].v)[1], p)
              IN  rest # <<>> /\ parse_usize(rest[1]).ok
                              /\ parse_usize(rest[1]).v = i
        /\ parse_f64(remove_char(csv_cells(lines[k].v)[2], ",")).ok }

\* The batch pipeline reached the scan of an opened CSV file.
BatchScanned ==
    /\ Returned("batch")
    /\ benv # None
    /\ ~StepFailed(benv[1])
    /\ benv[1].csv.ok

\* In a scanned batch, a case without a row is a Fail with error msg and no
\* actual, and a case with rows has the value of one of its rows as actual.
MissingIs(msg) ==
    BatchScanned =>
        \A i \in 1..NCases :
            LET rows == RowsOf(benv[1].csv.v, i - 1)
                r == results[NSkips + i]
            IN  IF rows = {}
                THEN /\ r.status = "fail"
                     /\ r.error = << msg >>
                     /\ r.actual = <<>>
                ELSE /\ r.error = <<>>
                     /\ \E k \in rows :
                           r.actual = << parse_f64(remove_char(
                               csv_cells(benv[1].csv.v[k].v)[2], ",")).v >>

\* C8 (as stated): a case whose index has no result in the scanned output
\* becomes Fail with error "Missing result in CSV" and no actual, and every
\* other case is classified from its own result.
C8_MissingResultInCsv == MissingIs("Missing result in CSV")

\* C8 (amended): a case whose index has no result in the scanned output
\* becomes Fail with error "Missing result in CSV output" and no actual, and
\* every other case is classified from its own result.
C8_MissingResultInCsvOutput == MissingIs("Missing result in CSV output")

\* A batch of two cases was scanned and only the second index had a row.
C8_Witness ==
    /\ BatchScanned
    /\ NCases = 2
    /\ RowsOf(benv[1].csv.v, 0) = {}
    /\ RowsOf(benv[1].csv.v, 1) # {}
    /\ results[NSkips + 1].status = "fail"
    /\ results[NSkips + 2].status = "pass"

\* The environment answers recorded for the pipelines of single cases.
CaseEnvs == { i \in 1..Len(envs) : envs[i] # None }

ResultOfCase(i) ==
    IF mode = "perf" THEN slots[i][1] ELSE results[NSkips + i]

\* C9: a Fail has either an actual value and no error (a numeric mismatch)
\* or an error and no actual value (a pipeline failure), never neither; a
\* failed pipeline step always gives the second kind.
C9_FailHasActualOrError ==
    /\ \A r \in Produced :
          r.status = "fail" => ((r.actual # <<>>) # (r.error # <<>>))
    /\ \A r \in Produced :
          (r.status = "fail" /\ r.actual # <<>>) =>
              r.actual[1] # r.expected
    /\ \A i \in CaseEnvs :
          (StepFailed(envs[i][1]) \/ ~envs[i][1].csv.ok) =>
              /\ ResultOfCase(i).status = "fail"
              /\ ResultOfCase(i).error # <<>>
              /\ ResultOfCase(i).actual = <<>>
    /\ (Returned("batch") /\ benv # None
          /\ (StepFailed(benv[1]) \/ ~benv[1].csv.ok)) =>
              \A i \in 1..NCases :
                  /\ results[NSkips + i].status = "fail"
                  /\ results[NSkips + i].error # <<>>
                  /\ results[NSkips + i].actual = <<>>

\* A sequential run produced a mismatch Fail and a pipeline-failure Fail.
C9_Witness ==
    /\ Returned("normal")
    /\ NCases = 2
    /\ envs[1][1].csv.ok /\ ~StepFailed(envs[1][1])
    /\ results[NSkips + 1].status = "fail"
    /\ results[NSkips + 1].actual # <<>>
    /\ results[NSkips + 1].error = <<>>
    /\ ~envs[2][1].spawn.ok
    /\ results[NSkips + 2].status = "fail"
    /\ results[NSkips + 2].actual = <<>>
    /\ results[NSkips + 2].error # <<>>

Distance(a, b) == IF a < b THEN b - a ELSE a - b

\* C10: a result is Pass only if its actual value is closer than epsilon to
\* its expected value, and a result whose actual value is at least epsilon
\* from the expected value is Fail.
C10_PassOnlyWithinEpsilon ==
    \A r \in Produced :
        /\ r.status = "pass" =>
              r.actual # <<>> /\ Distance(r.actual[1], r.expected) < EPSILON
        /\ (r.actual # <<>> /\ Distance(r.actual[1], r.expected) >= EPSILON) =>
              r.status = "fail"

\* A value at least epsilon but less than 0.0001 from the expected value was
\* classified Fail next to a Pass.
C10_Witness ==
    /\ rpc = "returned"
    /\ \E r \in Produced :
          /\ r.status = "fail"
          /\ r.actual # <<>>
          /\ Distance(r.actual[1], r.expected) >= EPSILON
          /\ Distance(r.actual[1], r.expected) < FallbackTol
    /\ \E r \in Produced : r.status = "pass"

\* ------------------------------------------------------------------------
\* Properties of the headless run
\* ------------------------------------------------------------------------
NFail(rs) == Cardinality({ i \in 1..Len(rs) : rs[i].status = "fail" })

NStatus(rs, st) == Cardinality({ i \in 1..Len(rs) : rs[i].status = st })

Exited == mpc = "exited"

\* C11: once the three modes have been run, the exit code is SUCCESS exactly
\* when the number of Fail results summed over the results of the normal,
\* perf and batch modes is zero; Skip results do not count.
C11_ExitSuccessIffNoFail ==
    (Exited /\ Len(ran) = 3) =>
        /\ exit_code \in {"SUCCESS", "FAILURE"}
        /\ exit_code = "SUCCESS"
             <=> NFail(ran[1]) + NFail(ran[2]) + NFail(ran[3]) = 0

\* The run exited with SUCCESS although every mode returned a Skip result
\* next to a Pass result.
C11_Witness ==
    /\ Exited
    /\ Len(ran) = 3
    /\ exit_code = "SUCCESS"
    /\ \A m \in 1..3 : NStatus(ran[m], "skip") > 0 /\ NStatus(ran[m], "pass") > 0

\* The oracle, the subject binary or the tests directory is missing.
SetupFails == engine = None \/ ~binary \/ ~dir.exists

\* C12: when the oracle, the subject binary or the tests directory is
\* missing, no mode is run and no subprocess is invoked, the program can only
\* exit with FAILURE, and load_test_cases on a directory that does not exist
\* returns an error.
C12_SetupFailureAbortsBeforeAnyCase ==
    SetupFails =>
        /\ ran = <<>>
        /\ results = <<>>
        /\ calls = <<>>
        /\ mpc \in {"detect", "binary", "new", "exited"}
        /\ Exited => exit_code = "FAILURE"
        /\ (~dir.exists /\ lpc \in {"ok", "err"}) =>
              /\ lpc = "err"
              /\ load_err = "Tests directory does not exist"

\* The oracle and the subject binary are there, the load of a directory that
\* does not exist returned, and the program exited.
C12_Witness ==
    /\ engine # None
    /\ binary
    /\ ~dir.exists
    /\ lpc = "err"
    /\ Exited
    /\ exit_code = "FAILURE"

\* ------------------------------------------------------------------------
\* Properties of the load
\* ------------------------------------------------------------------------
\* The file name ends in ".yaml" and has a stem.
HasYamlExtension(name) ==
    /\ Len(name) > 5
    /\ SubSeq(name, Len(name) - 4, Len(name)) = <<".", "y", "a", "m", "l">>

SpecFiles == { f \in dir.entries : HasYamlExtension(f.name) }

Malformed == { f \in SpecFiles : f.read.ok /\ f.yaml = None }

WellFormed == { f \in SpecFiles : f.read.ok /\ f.yaml # None }

\* The directory or one of its specification files cannot be read.
IoFailure ==
    \/ ~dir.exists
    \/ ~dir.read_dir.ok
    \/ \E f \in SpecFiles : ~f.read.ok

Occurrences(seq, x) == Cardinality({ i \in 1..Len(seq) : seq[i] = x })

Elements(seq) == { seq[i] : i \in 1..Len(seq) }

\* seq holds, in some order, one Mk(sp, k) for every key k that Sel selects
\* in the specification sp of every well-formed specification file.
HoldsOnePerKeyOfEachFile(seq, Sel(_), Mk(_, _)) ==
    LET pairs == UNION { { <<f, k>> : k \in Sel(f.yaml[1]) } : f \in WellFormed }
    IN  /\ Len(seq) = Cardinality(pairs)
        /\ \A p \in pairs :
              Occurrences(seq, Mk(p[1].yaml[1], p[2]))
                = Cardinality({ q \in pairs :
                                  Mk(q[1].yaml[1], q[2]) = Mk(p[1].yaml[1], p[2]) })

\* C13: a specification file that fails to parse does not abort the load:
\* the load fails only when the directory or a specification file cannot be
\* read, and a load that succeeds returns the cases and the skips of every
\* well-formed specification file, and warned about the malformed ones.
C13_MalformedFileIsSkipped ==
    /\ lpc = "err" => IoFailure
    /\ lpc = "ok" =>
          /\ Elements(warnings) = { f.name : f \in Malformed }
          /\ HoldsOnePerKeyOfEachFile(all_cases, RunnableKeys, CaseOfKey)
          /\ HoldsOnePerKeyOfEachFile(all_skips, SkipKeys, SkipOfKey)

\* A load that met a malformed specification file returned the case of
\* another file.
C13_Witness ==
    /\ lpc = "ok"
    /\ Malformed # {}
    /\ all_cases # <<>>

SameUpToOrder(s, t) ==
    /\ Len(s) = Len(t)
    /\ \A x \in Elements(s) \cup Elements(t) : Occurrences(s, x) = Occurrences(t, x)

\* C15: every load of the same directory returns what the loads before it
\* returned: an error again, or the same TestCases and the same SkipCases up
\* to their order.
C15_LoadIsIdempotent ==
    (lpc \in {"ok", "err"}) =>
        \A n \in 1..Len(loads) :
            /\ loads[n].ok <=> lpc = "ok"
            /\ loads[n].ok =>
                  /\ SameUpToOrder(loads[n].v[1], all_cases)
                  /\ Elements(loads[n].v[1]) = Elements(all_cases)
                  /\ SameUpToOrder(loads[n].v[2], all_skips)
                  /\ Elements(loads[n].v[2]) = Elements(all_skips)

\* The second load returned the cases of the first one in another order.
C15_Witness ==
    /\ lpc = "ok"
    /\ Len(loads) = 1
    /\ loads[1].ok
    /\ Len(all_cases) = 2
    /\ loads[1].v[1] # all_cases
    /\ all_skips # <<>>

\* ------------------------------------------------------------------------
\* Properties of the headless run of a loaded directory
\* ------------------------------------------------------------------------
\* The directory can be listed and holds no file with the extension yaml.
NoSpecFile ==
    /\ dir.exists
    /\ dir.read_dir.ok
    /\ \A f \in dir.entries : ~HasYamlExtension(f.name)

\* C14: the load of a directory without specification file succeeds with no
\* case, no skip and no warning, total_tests() is 0 and run_all returns the
\* empty sequence.
C14_NoSpecFileLoadsNothing ==
    NoSpecFile =>
        /\ lpc # "err"
        /\ all_cases = <<>> /\ all_skips = <<>>
        /\ warnings = <<>>
        /\ total_tests = 0
        /\ Len(ran) >= 1 => ran[1] = <<>>
        /\ (Exited /\ engine # None /\ binary) => exit_code = "SUCCESS"

\* run_all returned for a directory that holds readme.txt only.
C14_Witness ==
    /\ NoSpecFile
    /\ \E f \in dir.entries : f.name = <<"r", "e", "a", "d", "m", "e", ".", "t", "x", "t">>
    /\ Cardinality(dir.entries) = 1
    /\ lpc = "ok"
    /\ Len(ran) >= 1

\* ------------------------------------------------------------------------
\* Properties of the conversion
\* ------------------------------------------------------------------------
ConvertReturned == cpc = "returned"

Answered(step, r) == answer_of(step) = Some(r)

\* C16: when the conversion through the office suite returns after the
\* office was spawned, the office has been killed or has exited, whether
\* the port wait timed out, the automation failed or the automation
\* succeeded; after the automation step it has also been reaped.
C16_SpawnedOfficeIsTerminated ==
    (ConvertReturned /\ Answered("lo_spawn", OkUnit)) =>
        /\ lo_proc \in {"killed", "exited", "reaped"}
        /\ answer_of("uno") # None => lo_proc = "reaped"

\* The office was spawned and listening, the automation failed, and the
\* conversion returned.
C16_Witness ==
    /\ ConvertReturned
    /\ Answered("connected", OkUnit)
    /\ answer_of("uno") # None /\ ~answer_of("uno")[1].ok
    /\ lo_proc = "reaped"

\* The conversion subprocess exited with success.
SubprocessSucceeded == Answered("status", OkUnit) \/ Answered("uno", OkUnit)

\* C17: xlsx_to_csv returns Ok only when the output file exists; when the
\* conversion subprocess exited with success and the file does not exist
\* the error is "CSV file not created: <path>", which is not the error
\* returned for a subprocess that exited with a failure status.
C17_OutputExistenceIsVerified ==
    ConvertReturned =>
        /\ cresult # None
        /\ cresult[1].ok => (csv_file /\ SubprocessSucceeded)
        /\ (SubprocessSucceeded /\ ~csv_file) =>
              cresult[1] = Err("CSV file not created: " \o CsvPathDebug)
        /\ \A s \in Stderrs :
              /\ Answered("status", Err(s)) =>
                    /\ cresult[1] = Err("ssconvert failed: " \o s)
                    /\ cresult[1] # Err("CSV file not created: " \o CsvPathDebug)
              /\ Answered("uno", Err("Python UNO conversion failed: " \o s)) =>
                    /\ cresult[1] = Err("Python UNO conversion failed: " \o s)
                    /\ cresult[1] # Err("CSV file not created: " \o CsvPathDebug)

\* ssconvert exited with success, left no file, and xlsx_to_csv returned.
C17_Witness ==
    /\ ConvertReturned
    /\ kind = "Gnumeric"
    /\ Answered("status", OkUnit)
    /\ ~csv_file
    /\ cresult = Some(Err("CSV file not created: " \o CsvPathDebug))

\* ------------------------------------------------------------------------
\* Properties of the subprocess invocations of the runner
\* ------------------------------------------------------------------------
Issued(prog, cmd) ==
    { i \in 1..Len(calls) : calls[i].prog = prog /\ calls[i].cmd = cmd }

IssuedFor(prog, cmd, case) ==
    { i \in Issued(prog, cmd) : calls[i].case = case }

\* The number of commands a pipeline of `last` commands issues before the
\* first step that fails: none when the temp dir or the YAML file cannot be
\* written, only the first when the subject cannot be run or fails.
CommandsReached(env, last) ==
    IF ~env.tempdir.ok \/ ~env.write.ok THEN 0
    ELSE IF ~env.spawn.ok \/ ~env.status.ok THEN 1
    ELSE last

\* C18: run_batch issues at most one subject export and at most one oracle
\* conversion and nothing else, whatever the number of test cases, and no
\* command at all when there is no test case.
C18_BatchIssuesOneExportOneConversion ==
    mode = "batch" =>
        /\ Cardinality(Issued("subject", "export")) <= 1
        /\ Cardinality(Issued("oracle", "xlsx_to_csv")) <= 1
        /\ Len(calls) = Cardinality(Issued("subject", "export"))
                          + Cardinality(Issued("oracle", "xlsx_to_csv"))
        /\ NCases = 0 => calls = <<>>

\* run_batch classified two test cases from the output of one export and
\* one conversion.
C18_Witness ==
    /\ Returned("batch")
    /\ NCases = 2
    /\ \A i \in 1..NCases : results[NSkips + i].actual # None
    /\ Len(calls) = 2
    /\ Cardinality(Issued("subject", "export")) = 1
    /\ Cardinality(Issued("oracle", "xlsx_to_csv")) = 1

\* C19: run_perf_parallel issues only `calculate --dry-run` commands of the
\* subject, at most one per test case, and neither an export nor an oracle
\* conversion.
C19_PerfIssuesOnlyDryRunCalculations ==
    mode = "perf" =>
        /\ \A i \in 1..Len(calls) :
              /\ calls[i].prog = "subject"
              /\ calls[i].cmd = "calculate --dry-run"
              /\ calls[i].case \in 1..NCases
        /\ \A c \in 1..NCases :
              Cardinality(IssuedFor("subject", "calculate --dry-run", c)) <= 1
        /\ Issued("subject", "export") = {}
        /\ Issued("oracle", "xlsx_to_csv") = {}

\* run_perf_parallel returned after one calculation for each of two cases.
C19_Witness ==
    /\ Returned("perf")
    /\ NCases = 2
    /\ Len(calls) = 2
    /\ \A c \in 1..NCases :
          Cardinality(IssuedFor("subject", "calculate --dry-run", c)) = 1

\* The number of commands the environment's answers to test case c account
\* for (c = 0: to the batch of test cases).
CommandsOfCase(c) ==
    IF c = 0
    THEN IF benv = None THEN 0 ELSE CommandsReached(benv[1], 2)
    ELSE IF envs[c] = None THEN 0
    ELSE CommandsReached(envs[c][1], IF mode = "perf" THEN 1 ELSE 2)

\* C20: in the three modes the commands issued are those of the pipelines of
\* the test cases: every command belongs to a test case or to the batch of
\* test cases, and their number is given by what the environment answered
\* to the test cases, whatever the number of skip cases; without test case
\* no command is issued.
C20_SkipsIssueNoCommand ==
    /\ \A c \in 0..NCases :
          Cardinality({ i \in 1..Len(calls) : calls[i].case = c })
            = CommandsOfCase(c)
    /\ \A i \in 1..Len(calls) : calls[i].case \in 0..NCases
    /\ NCases = 0 => calls = <<>>
    /\ (idx = 0 /\ completed = <<>> /\ benv = None) => calls = <<>>

\* run_all returned two Skip results and the result of one test case, after
\* the two commands of that case.
C20_Witness ==
    /\ Returned("normal")
    /\ NSkips = 2
    /\ NCases = 1
    /\ results[1].status = "skip" /\ results[2].status = "skip"
    /\ Len(calls) = 2

\* ------------------------------------------------------------------------
\* Properties of the state of the terminal interface
\* ------------------------------------------------------------------------
\* The method called last.
Called(name) == op.name = name

\* C23: the three counters add up to the number of results, which is
\* current_test, each counter is the number of results of its variant, and a
\* call of add_result raises the counter of the variant of the added result
\* by one and leaves the other two as they were.
C23_CountersMatchResults ==
    /\ app.passed + app.failed + app.skipped = Len(app.results)
    /\ Len(app.results) = app.current_test
    /\ app.passed = NStatus(app.results, "pass")
    /\ app.failed = NStatus(app.results, "fail")
    /\ app.skipped = NStatus(app.results, "skip")
    /\ Called("add_result") =>
          /\ app.results = Append(before.results, op.arg)
          /\ app.passed
               = before.passed + (IF op.arg.status = "pass" THEN 1 ELSE 0)
          /\ app.failed
               = before.failed + (IF op.arg.status = "fail" THEN 1 ELSE 0)
          /\ app.skipped
               = before.skipped + (IF op.arg.status = "skip" THEN 1 ELSE 0)

\* add_result added a Fail to an App that held a Pass and a Skip.
C23_Witness ==
    /\ Called("add_result")
    /\ op.arg.status = "fail"
    /\ before.passed = 1 /\ before.skipped = 1 /\ before.failed = 0
    /\ app.failed = 1

\* The two characters are the same letter, whatever their case.
SameIgnoringCase(c, d) ==
    \/ c = d
    \/ \E i \in 1..26 : { c, d } = { UpperCase[i], LowerCase[i] }

\* The name holds the query as a substring, case ignored.
HoldsIgnoringCase(name, query) ==
    \E k \in 0..(Len(name) - Len(query)) :
        \A j \in 1..Len(query) : SameIgnoringCase(name[k + j], query[j])

\* The filter mode lets the result through.
Allowed(r) ==
    \/ app.filter_mode = "All"
    \/ app.filter_mode = "Passed" /\ r.status = "pass"
    \/ app.filter_mode = "Failed" /\ r.status = "fail"

Visible(r) == Allowed(r) /\ HoldsIgnoringCase(r.name, app.search_query)

\* C24: filtered_results() lists the results that the filter mode allows and
\* whose name holds the search query, case ignored, the most recent first.
C24_FilteredResultsAreTheVisibleOnes ==
    LET listed == filtered_results(app)
        visible == SelectSeq(app.results, Visible)
    IN  /\ Len(listed) = Len(visible)
        /\ \A k \in 1..Len(listed) : listed[k] = visible[Len(visible) + 1 - k]

\* With the query "a" and the filter All, of three results the two whose
\* name holds an "a" or an "A" are listed, the later one first.
C24_Witness ==
    /\ app.filter_mode = "All"
    /\ app.search_query = <<"a">>
    /\ Len(app.results) = 3
    /\ Len(filtered_results(app)) = 2
    /\ filtered_results(app)[1] = app.results[3]
    /\ filtered_results(app)[1].name[1] = "A"
    /\ filtered_results(app)[2] = app.results[1]

\* C25: with a filtered list that is not empty select_next moves the
\* selection down by one unless it is on the last entry, select_previous
\* moves it up by one unless it is on entry 0, and the selection stays
\* inside the list; with an empty filtered list the selection is None and
\* both leave it so.
C25_SelectionMovesInsideTheList ==
    /\ app.filtered_indices = <<>> => app.selected = None
    /\ app.selected # None => unwrap(app.selected) < Len(app.filtered_indices)
    /\ (Called("select_next") \/ Called("select_previous")) =>
          /\ app.filtered_indices = before.filtered_indices
          /\ before.filtered_indices = <<>> =>
                before.selected = None /\ app.selected = None
          /\ before.filtered_indices # <<>> =>
                /\ before.selected # None
                /\ LET s == unwrap(before.selected)
                       last == Len(before.filtered_indices) - 1
                   IN  IF Called("select_next")
                       THEN app.selected = Some(IF s < last THEN s + 1 ELSE s)
                       ELSE app.selected = Some(IF s > 0 THEN s - 1 ELSE s)

\* select_next was called with the selection on the last of two entries.
C25_Witness ==
    /\ Called("select_next")
    /\ Len(app.filtered_indices) = 2
    /\ before.selected = Some(1)
    /\ app.selected = Some(1)

\* C26: set_filter with a mode other than the current one sets the mode and
\* puts the selection on entry 0 of the new filtered list, or on None when
\* that list is empty; set_filter with the current mode changes nothing.
C26_SetFilterResetsSelection ==
    Called("set_filter") =>
        IF op.arg # before.filter_mode
        THEN /\ app.filter_mode = op.arg
             /\ app.selected
                  = IF filtered_results(app) = <<>> THEN None ELSE Some(0)
        ELSE /\ app.filtered_indices = before.filtered_indices
             /\ app.selected = before.selected
             /\ app = before

\* set_filter(Passed) was called with the filter All and the selection on
\* entry 1.
C26_Witness ==
    /\ Called("set_filter")
    /\ before.filter_mode = "All"
    /\ op.arg = "Passed"
    /\ before.selected = Some(1)
    /\ app.selected = Some(0)

\* C27: exit_search_mode leaves the input mode Normal and the query empty,
\* and filtered_results() then holds every result the filter mode allows, as
\* often as the results hold it, and no other.
C27_ExitSearchModeShowsAll ==
    Called("exit_search_mode") =>
        /\ app.input_mode = "Normal"
        /\ app.search_query = <<>>
        /\ \A r \in Elements(app.results) \cup Elements(filtered_results(app)) :
              Occurrences(filtered_results(app), r)
                = IF Allowed(r) THEN Occurrences(app.results, r) ELSE 0

\* exit_search_mode was called in search mode with a query that hid a
\* result.
C27_Witness ==
    /\ Called("exit_search_mode")
    /\ before.input_mode = "Search"
    /\ Len(before.search_query) = 2
    /\ Len(filtered_results(before)) < Len(filtered_results(app))

\* ------------------------------------------------------------------------
\* Properties of a run of the terminal interface
\* ------------------------------------------------------------------------
\* The results of test cases the App holds: those that are no Skip.
CaseResults == SelectSeq(app.results, LAMBDA r : r.status # "skip")

\* A quit was delivered at the head of the loop over the test cases.
QuitObserved == observed # None

\* The run of the test cases is between two cases, or over.
BetweenCases == tpc \in { "poll", "loop", "returned", "exited" }

\* C21: in normal mode a case is started only at the head of the loop, where
\* the pending event is read first; once a 'q' is read there no command is
\* issued any more and no further case is started; and a case that was
\* started runs to its end whatever is typed meanwhile: between two cases
\* the App holds the result of every case started, in the initial run after
\* all the commands its pipeline reaches.
C21_QuitIsCheckedBetweenCases ==
    /\ QuitObserved =>
          /\ Len(calls) = unwrap(observed)
          /\ tpc \in { "loop", "returned", "exited" }
          /\ ~app.done
          /\ \A k \in 1..NCases : k > idx => envs[k] = None
    /\ (mode = "normal" /\ BetweenCases) =>
          /\ Len(CaseResults) = idx
          /\ \A k \in 1..idx :
                /\ envs[k] # None
                /\ CaseResults[k].name = test_cases[k].name
                /\ StepFailed(envs[k][1]) => CaseResults[k].status = "fail"
                /\ reruns = 0 =>
                      Cardinality({ i \in 1..Len(calls) : calls[i].case = k })
                        = CommandsReached(envs[k][1], 2)
    /\ (mode = "normal" /\ tpc = "case") =>
          /\ ~QuitObserved
          /\ Len(CaseResults) = idx
          /\ envs[idx + 1] # None

\* The first of two cases ran to its end, with its two commands, while a
\* 'q' was pending; the 'q' was read before the second case, which was not
\* started.
C21_Witness ==
    /\ observed = Some(2)
    /\ NCases = 2
    /\ idx = 1
    /\ Len(CaseResults) = 1
    /\ envs[2] = None
    /\ app.current_test = NSkips + 1

\* tui::run returned Ok(..).
ReturnedOk == tui_ret \in { "Ok(true)", "Ok(false)" }

\* Every test case of the runner has a result in the App, and no result is
\* a Fail.
AllExecutedNoneFailed ==
    /\ Len(CaseResults) = NCases
    /\ NStatus(app.results, "fail") = 0

\* C22: tui::run returns Ok(true) when every test case was executed and none
\* failed, and Ok(false) in every other case in which it returns Ok.
C22_OkTrueOnlyAfterFullCleanRun ==
    ReturnedOk => (tui_ret = "Ok(true)" <=> AllExecutedNoneFailed)

\* ------------------------------------------------------------------------
\* Properties of the pipeline of a single case
\* ------------------------------------------------------------------------
\* The commands issued for test case c, in the order of their issue.
CallsOfCase(c) == SelectSeq(calls, LAMBDA x : x.case = c)

\* find_result_in_csv for every answer of the environment and every case.
Extractions ==
    [ env \in SeqEnvSet |->
        [ tc \in CasePool |-> find_result_in_csv(env.csv, tc.expected) ] ]

\* The error the failed step reports, extracted being the outcome of the
\* extraction.
ErrorOfStep(env, extracted) ==
    IF ~env.tempdir.ok THEN "Failed to create temp dir: " \o env.tempdir.e
    ELSE IF ~env.write.ok THEN "Failed to write YAML: " \o env.write.e
    ELSE IF ~env.spawn.ok THEN "Failed to run forge-demo: " \o env.spawn.e
    ELSE IF ~env.status.ok THEN "forge-demo export failed: " \o env.status.e
    ELSE IF ~env.convert.ok THEN "CSV conversion failed: " \o env.convert.e
    ELSE extracted.e

\* C28: the commands of a single-case pipeline are the export alone or the
\* export followed by the oracle conversion, each at most once; the
\* conversion is issued only after the export was run and exited
\* successfully; the result carries an extracted value only after both
\* succeeded; and a step that fails gives a Fail with that step's error and
\* no actual value, with no command after the failed one.
C28_StepsOnceInOrderNoRetry ==
    mode = "normal" =>
        \A c \in CaseEnvs :
            LET env == envs[c][1]
                cmds == CallsOfCase(c)
                r == ResultOfCase(c)
                extracted == Extractions[env][test_cases[c]]
            IN  /\ cmds \in { <<>>, << Export(c) >>, << Export(c), Convert(c) >> }
                /\ Len(cmds) = 2 => env.spawn.ok /\ env.status.ok
                /\ r.actual # None =>
                      /\ Len(cmds) = 2
                      /\ env.convert.ok
                      /\ extracted.ok
                      /\ r.actual = Some(extracted.v)
                /\ (~env.spawn.ok \/ ~env.status.ok) => Len(cmds) <= 1
                /\ (StepFailed(env) \/ ~extracted.ok) =>
                      /\ r.status = "fail"
                      /\ r.actual = None
                      /\ r.error = Some(ErrorOfStep(env, extracted))

\* run_all ran two cases: the export of the first exited with an error and
\* no conversion followed, the second was exported, converted and passed.
C28_Witness ==
    /\ Returned("normal")
    /\ NCases = 2
    /\ ~envs[1][1].status.ok
    /\ CallsOfCase(1) = << Export(1) >>
    /\ ResultOfCase(1).error = Some("forge-demo export failed: bad")
    /\ CallsOfCase(2) = << Export(2), Convert(2) >>
    /\ ResultOfCase(2).status = "pass"

\* ------------------------------------------------------------------------
\* Properties of the tabular scan
\* ------------------------------------------------------------------------
\* The case's pipeline reached the extraction and the CSV file was opened.
Scanned(c) ==
    /\ c \in CaseEnvs
    /\ mode = "normal"
    /\ ~StepFailed(envs[c][1])
    /\ envs[c][1].csv.ok

\* The rows of the file that were read: those before the first row that
\* cannot be read.
RowsRead(lines) == { l \in 1..Len(lines) : \A k \in 1..l : lines[k].ok }

EveryRowRead(lines) == Cardinality(RowsRead(lines)) = Len(lines)

\* The cells of row l: the fields between commas, unquoted and trimmed.
RowCells(lines, l) == csv_cells(lines[l].v)

IsResultLabel(cell) == cell = ResultLabel \/ cell = TestResultLabel

\* Cell i of the row is a result label followed, in the row, by a number.
LabelledAt(cells, i) ==
    /\ IsResultLabel(cells[i])
    /\ i < Len(cells)
    /\ parse_f64(cells[i + 1]).ok

\* Cell i of the row is a number less than 1e-4 away from the expected
\* value.
NearExpectedAt(cells, i, expected) ==
    LET own == parse_f64(cells[i])
    IN  own.ok /\ Abs(own.v - expected) < FallbackTol

\* The cells, as <<row, cell>>, at which the scan of the file may return.
Qualifying(lines, expected) ==
    { p \in UNION { {l} \X (1..Len(RowCells(lines, l))) : l \in RowsRead(lines) } :
        \/ LabelledAt(RowCells(lines, p[1]), p[2])
        \/ NearExpectedAt(RowCells(lines, p[1]), p[2], expected) }

\* Row order, then cell order within the row.
Before(p, q) == p[1] < q[1] \/ (p[1] = q[1] /\ p[2] <= q[2])

\* The value taken at a qualifying cell: the number after the label, or
\* the cell's own number.
ValueAt(lines, p) ==
    LET cells == RowCells(lines, p[1])
    IN  IF LabelledAt(cells, p[2]) THEN parse_f64(cells[p[2] + 1]).v
        ELSE parse_f64(cells[p[2]]).v

\* What the rule gives for a file and an expected value: the qualifying
\* cells, the first of them and the value taken there, and whether the
\* file was read to its end.
Expectation(lines, expected) ==
    LET q == Qualifying(lines, expected)
        first == IF q = {} THEN <<0, 0>>
                 ELSE CHOOSE p \in q : \A o \in q : Before(p, o)
    IN  [ qualifying |-> q,
          first |-> first,
          value |-> IF q = {} THEN None ELSE Some(ValueAt(lines, first)),
          complete |-> EveryRowRead(lines) ]

\* The rule applied to every file the oracle may leave and every case.
Expectations ==
    [ f \in SingleCsvFiles |->
        [ tc \in CasePool |-> Expectation(f, tc.expected) ] ]

ExpectationOf(c) == Expectations[envs[c][1].csv.v][test_cases[c]]

\* C29: the value extracted from a CSV file is the one taken at the first
\* qualifying cell, rows in file order and cells left to right, where a
\* cell qualifies when it is "result" or "test_result" followed in its row
\* by a cell that parses as a number (the value is that number) or when it
\* parses as a number less than 1e-4 away from the expected value (the
\* value is its own); when no cell qualifies the extraction is an error:
\* "Could not find result in CSV output" for a file read to its end, and
\* the read error when a row could not be read.
C29_FirstQualifyingCellWins ==
    \A c \in 1..NCases :
        Scanned(c) =>
            LET r == ResultOfCase(c)
                rule == ExpectationOf(c)
            IN  /\ rule.qualifying # {} => r.actual = rule.value
                /\ rule.qualifying = {} =>
                      /\ r.status = "fail"
                      /\ r.actual = None
                      /\ r.error # None
                      /\ rule.complete =>
                            r.error = Some("Could not find result in CSV output")

\* A file whose second row is 2,result,1 was scanned for the expected value
\* 2: the fallback match at the first cell won over the labelled value
\* that follows it, although the first row holds a label without a value.
C29_Witness ==
    \E c \in 1..NCases :
        /\ Scanned(c)
        /\ test_cases[c].expected = 2 * Scale
        /\ ExpectationOf(c).qualifying = { <<2, 1>>, <<2, 2>> }
        /\ ExpectationOf(c).first = <<2, 1>>
        /\ ResultOfCase(c).status = "pass"

\* The text of the quoted field of a row of the form <label>,"<field>",
\* for a label of k characters.
QuotedField(line, k) == SubSeq(line, k + 3, Len(line) - 1)

\* The row is a result label of k characters followed by one quoted field
\* made of digits and thousands separators.
IsLabelThenQuotedNumber(line, k) ==
    /\ Len(line) >= k + 4
    /\ IsResultLabel(SubSeq(line, 1, k))
    /\ line[k + 1] = ","
    /\ line[k + 2] = "\""
    /\ line[Len(line)] = "\""
    /\ \A j \in 1..Len(QuotedField(line, k)) :
          IsDigit(QuotedField(line, k)[j]) \/ QuotedField(line, k)[j] = ","
    /\ IsDigit(QuotedField(line, k)[1])
    /\ \E j \in 1..Len(QuotedField(line, k)) : QuotedField(line, k)[j] = ","

\* C30: when the first row of the scanned file is a result label followed
\* by a quoted number written with thousands separators, the extracted
\* value is that number with the separators removed (1234 for "1,234").
C30_ThousandsSeparatorsAreRemoved ==
    \A c \in 1..NCases :
        \A k \in { Len(ResultLabel), Len(TestResultLabel) } :
            ( /\ Scanned(c)
              /\ RowsRead(envs[c][1].csv.v) # {}
              /\ IsLabelThenQuotedNumber(envs[c][1].csv.v[1].v, k) )
            => ResultOfCase(c).actual
                 = Some(parse_f64(remove_char(
                          QuotedField(envs[c][1].csv.v[1].v, k), ",")).v)

\* ------------------------------------------------------------------------
\* Properties of the scan of the batch output
\* ------------------------------------------------------------------------
\* The label is "test_" or "assumptions.test_" followed by a suffix that
\* reads as the index i.
IsLabelOfIndex(label, i) ==
    \E prefix \in { BatchPrefix, BatchPrefixLong } :
        /\ Len(label) > Len(prefix)
        /\ SubSeq(label, 1, Len(prefix)) = prefix
        /\ LET suffix == SubSeq(label, Len(prefix) + 1, Len(label))
           IN  parse_usize(suffix).ok /\ parse_usize(suffix).v = i

\* The row was read, its first cell is a label of index i and its second
\* cell parses as a number.
RowGivesIndex(line, i) ==
    /\ line.ok
    /\ LET cells == csv_cells(line.v)
       IN  /\ Len(cells) >= 2
           /\ IsLabelOfIndex(cells[1], i)
           /\ parse_f64(cells[2]).ok

\* The numbers some row of the file gives for index i.
ValuesOfIndex(lines, i) ==
    { parse_f64(csv_cells(lines[l].v)[2]).v :
        l \in { k \in 1..Len(lines) : RowGivesIndex(lines[k], i) } }

\* For every batch file and every index a case may have, the numbers the
\* rows of the file give for it.
BatchValues ==
    [ f \in BatchCsvFiles |->
        [ i \in 0..(MaxCases - 1) |-> ValuesOfIndex(f, i) ] ]

\* run_batch reached the scan of the output.
BatchReachedScan ==
    /\ mode = "batch"
    /\ benv # None
    /\ ~StepFailed(benv[1])

\* C31: the scan of the batch output gives one entry per test case; entry i
\* is a value exactly when some row has "test_i" or "assumptions.test_i" as
\* its first cell and a number as its second, and the value is the number
\* of such a row; rows with a suffix that is not a number or not below the
\* number of cases change nothing; a file that cannot be opened gives no
\* value at all.
C31_BatchScanRecoversByIndex ==
    BatchReachedScan =>
        /\ Len(results) = NSkips + NCases
        /\ \A i \in 0..(NCases - 1) :
              LET r == results[NSkips + i + 1]
              IN  IF benv[1].csv.ok
                  THEN LET values == BatchValues[benv[1].csv.v][i]
                       IN  /\ r.actual # None <=> values # {}
                           /\ r.actual # None => r.actual[1] \in values
                  ELSE r.actual = None

\* The output held test_0 with a text, test_x, test_7 and an unreadable
\* row before test_1 with the number 2: of two cases the first has no
\* value and the second has the value 2.
C31_Witness ==
    /\ BatchReachedScan
    /\ benv[1].csv.ok
    /\ NCases = 2
    /\ Len(benv[1].csv.v) = 5
    /\ results[NSkips + 1].actual = None
    /\ results[NSkips + 1].error = Some("Missing result in CSV output")
    /\ results[NSkips + 2].actual = Some(2 * Scale)

\* ------------------------------------------------------------------------
\* Properties of the wait for the office's port
\* ------------------------------------------------------------------------
\* The conversion as a running thread: a step that can be taken is taken.
\* wait_for_port leaves its loop when a connection succeeds or when the
\* deadline has passed, and every other step is a call that returns.
SpecConvertLive == SpecConvert /\ WF_vars(NextConvert)

\* run_uno_convert was called.
ScriptRun == answer_of("uno") # None

\* wait_for_port returned true / false.
PortConnected == answer_of("connected") = Some(OkUnit)

PortTimedOut == answer_of("connected") = Some(Err("timeout"))

\* C32: the automation script is run only after wait_for_port has
\* connected; when the deadline passes without a connection the wait ends,
\* the conversion has returned "LibreOffice failed to start listening" and
\* the script has not been run, and it is not run afterwards.
C32_ScriptOnlyAfterConnect ==
    /\ [](ScriptRun => PortConnected)
    /\ [](cpc = "run_uno_convert" => PortConnected)
    /\ [](PortTimedOut =>
            /\ ~ScriptRun
            /\ cpc = "returned"
            /\ cresult = Some(Err("LibreOffice failed to start listening")))
    /\ [][PortTimedOut => UNCHANGED <<cpc, cenv, cresult>>]_vars
    /\ (cpc = "wait_for_port") ~> (PortConnected \/ PortTimedOut)

\* Every connection attempt the deadline allows failed, and the conversion
\* returned the error without a call of the script.
C32_Witness ==
    /\ kind = "LibreOffice"
    /\ attempts = MaxAttempts
    /\ PortTimedOut
    /\ ~ScriptRun
    /\ cresult = Some(Err("LibreOffice failed to start listening"))

\* ------------------------------------------------------------------------
\* Properties of the return of the parallel run
\* ------------------------------------------------------------------------
\* The cases handed to the pool whose evaluation has not completed.
StillRunning == { i \in 1..Len(slots) : slots[i] = None }

\* C33: run_perf_parallel has returned only when no case handed to the pool
\* is still running, and then the results hold the result of every case;
\* while a case is still running the call has not returned and the results
\* hold no result of a test case.
C33_PerfReturnsOnlyWhenAllDone ==
    mode = "perf" =>
        /\ rpc = "returned" =>
              /\ StillRunning = {}
              /\ Len(results) = NSkips + NCases
              /\ \A i \in 1..NCases : results[NSkips + i] = slots[i][1]
        /\ StillRunning # {} =>
              /\ rpc = "running"
              /\ Len(results) = NSkips

\* Two cases were evaluated, the second completing first, and the call
\* returned the results of both.
C33_Witness ==
    /\ Returned("perf")
    /\ NCases = 2
    /\ completed = <<2, 1>>
    /\ Len(results) = NSkips + 2

\* ------------------------------------------------------------------------
\* Properties of the mode flags of the terminal interface
\* ------------------------------------------------------------------------
\* C34: perf_mode and batch_mode are never both true, whatever sequence of
\* 'p' and 'b' was pressed, and the flag that is set is the one of the run
\* that was made last.
C34_AtMostOneModeFlag ==
    /\ ~(perf_mode /\ batch_mode)
    /\ perf_mode => mode = "perf"
    /\ batch_mode => mode = "batch"

\* 'b' and then 'p' were pressed: the batch run was made, and the perf run
\* after it left perf_mode alone set.
C34_Witness ==
    /\ tpc = "loop"
    /\ reruns = 2
    /\ benv # None
    /\ mode = "perf"
    /\ perf_mode /\ ~batch_mode

\* ------------------------------------------------------------------------
\* Properties of the selection of the terminal interface
\* ------------------------------------------------------------------------
\* C35: after any sequence of add_result, set_filter, search_push,
\* search_pop, exit_search_mode, select_next and select_previous the
\* selection is None or an index below the number of filtered results, the
\* filtered indices are indices of results, and selected_result gives the
\* filtered result at the selection whenever the selection is not None.
C35_SelectionIsInRange ==
    /\ \A k \in 1..Len(app.filtered_indices) :
          app.filtered_indices[k] \in 0..(Len(app.results) - 1)
    /\ app.selected # None =>
          /\ unwrap(app.selected) \in 0..(Len(app.filtered_indices) - 1)
          /\ selected_result(app)
               = Some(filtered_results(app)[unwrap(app.selected) + 1])
    /\ app.selected = None => selected_result(app) = None

\* With the selection on the second of two filtered results a character
\* was typed that leaves one of them: the selection is back on the first.
C35_Witness ==
    /\ Called("search_push")
    /\ before.selected = Some(1)
    /\ Len(before.filtered_indices) = 2
    /\ Len(app.filtered_indices) = 1
    /\ app.selected = Some(0)

\* ------------------------------------------------------------------------
\* Properties of the keys of the interactive loop
\* ------------------------------------------------------------------------
InLoop == tpc = "loop"

Searching == app.input_mode = "Search"

\* The step makes run_app return an Ok value.
ReturnsOk == tpc' = "returned" /\ tui_ret' \in { "Ok(true)", "Ok(false)" }

\* The step reads a press of 'q'.
ReadsQuit == op' = KeyRead(Press("q"))

\* C36: in the interactive loop, in Search input mode, no event makes
\* run_app return a value, and a press of 'q' appends 'q' to the search
\* query and leaves the loop running in Search mode; run_app returns a
\* value from the loop only in Normal input mode, on an event that, when it
\* was waiting to be read, is a press of 'q', Esc or Enter.
C36_QuitKeyIsTextWhileSearching ==
    /\ [][(InLoop /\ Searching) => ~ReturnsOk]_vars
    /\ [][(InLoop /\ Searching /\ ReadsQuit) =>
             /\ app'.search_query = Append(app.search_query, "q")
             /\ app'.input_mode = "Search"
             /\ tpc' = "loop"]_vars
    /\ [][(InLoop /\ ReturnsOk) =>
             /\ app.input_mode = "Normal"
             /\ op'.name = "key"
             /\ keys # <<>> =>
                   /\ Head(keys).kind = "Press"
                   /\ Head(keys).code \in { "q", "Esc", "Enter" }
                   /\ keys' = Tail(keys)]_vars

\* 'q' was pressed in Search mode: it is the search query, and the loop
\* goes on.
C36_Witness ==
    /\ InLoop
    /\ Searching
    /\ op = KeyRead(Press("q"))
    /\ app.search_query = << "q" >>

\* ------------------------------------------------------------------------
\* Properties of a value matched by nearness to the expected value
\* ------------------------------------------------------------------------
\* The scan of the file returns at a cell that is not a label followed by
\* a number: the value is the cell's own number, taken because it is less
\* than 1e-4 away from the expected value.
FoundByFallback(lines, expected) ==
    LET rule == Expectation(lines, expected)
    IN  /\ rule.qualifying # {}
        /\ ~LabelledAt(RowCells(lines, rule.first[1]), rule.first[2])

FallbackScans ==
    [ f \in SingleCsvFiles |->
        [ tc \in CasePool |-> FoundByFallback(f, tc.expected) ] ]

\* The case was scanned and the value came from the fallback match, at
\* least epsilon away from the expected value.
NearMiss(c) ==
    /\ Scanned(c)
    /\ FallbackScans[envs[c][1].csv.v][test_cases[c]]
    /\ Distance(ExpectationOf(c).value[1], test_cases[c].expected) >= EPSILON
    /\ Distance(ExpectationOf(c).value[1], test_cases[c].expected) < FallbackTol

\* C37: in the sequential mode a value v found by the fallback match with
\* epsilon <= |v - expected| < 1e-4 gives a Fail result whose actual value
\* is v and whose error is absent: neither a Pass nor an extraction error.
C37_NearMissIsFailWithActual ==
    \A c \in 1..NCases :
        NearMiss(c) =>
            /\ ResultOfCase(c).status = "fail"
            /\ ResultOfCase(c).actual = ExpectationOf(c).value
            /\ ResultOfCase(c).error = None
            /\ ResultOfCase(c).expected = test_cases[c].expected

\* The file x,1.00005 was scanned for the expected value 1.
C37_Witness ==
    \E c \in 1..NCases :
        /\ NearMiss(c)
        /\ test_cases[c].expected = 1 * Scale
        /\ ExpectationOf(c).value = Some(1 * Scale + 5)
        /\ ResultOfCase(c).status = "fail"

\* ------------------------------------------------------------------------
\* Properties of the interactive loop after a cancelled run
\* ------------------------------------------------------------------------
\* The step at which run_tests of tui/mod.rs sees the quit key.
QuitStopsRun ==
    ~monolith /\ tpc = "poll" /\ observed = None /\ observed' # None

\* The interactive loop of tui/mod.rs after a run that saw the quit key.
LoopAfterQuit == ~monolith /\ observed # None /\ tpc = "loop"

\* The loop has read Enter, 's', 'p' or 'b'.
ReadsGated == op'.arg = "gated"

RunAllUpTo(n) ==
    skip_results(skip_cases)
    \o [ i \in 1..n |-> RunTestTable[test_cases[i]][envs[i][1]] ]

\* The first run of run_tests of tui/mod.rs, in normal mode, with no quit
\* key seen.
FirstRunUncancelled ==
    ~monolith /\ reruns = 0 /\ observed = None /\ mode = "normal"

\* C39: an interactive normal-mode run that is not cancelled hands to
\* App::add_result the results that run_all returns, in the same order:
\* the Skip results, then one result for each test case in loaded order;
\* when the run is over the App holds that sequence, is done, and
\* current_test == total_tests.
C39_InteractiveRunAddsWhatRunAllReturns ==
    FirstRunUncancelled =>
        /\ tpc \in { "poll", "case" } =>
              /\ app.results = RunAllUpTo(idx)
              /\ app.current_test = Len(skip_cases) + idx
              /\ ~app.done
        /\ tpc = "loop" =>
              /\ app.results = RunAllUpTo(Len(test_cases))
              /\ app.current_test = total_tests
              /\ app.total_tests = total_tests
              /\ app.done

\* A run over one skip case and two test cases, the second of which
\* failed, is over.
C39_Witness ==
    /\ FirstRunUncancelled
    /\ tpc = "loop"
    /\ Len(skip_cases) = 1
    /\ Len(test_cases) = 2
    /\ app.current_test = 3
    /\ app.results[1].status = "skip"
    /\ app.results[2].status = "pass"
    /\ app.results[3].status = "fail"

\* ------------------------------------------------------------------------
\* Properties of a load that meets an unreadable file
\* ------------------------------------------------------------------------
\* The specification files of the directory whose content cannot be read.
Unreadable == { f \in SpecFiles : ~f.read.ok }

\* The directory exists and its entries can be listed.
DirListed == dir.exists /\ dir.read_dir.ok

\* C40: when the directory holds an entry with the specification extension
\* whose content cannot be read, the load does not succeed: it ends with
\* the error of the read, and what it returns holds no case of any file.
C40_UnreadableFileFailsTheLoad ==
    (DirListed /\ Unreadable # {}) =>
        /\ lpc # "ok"
        /\ lpc = "err" =>
              /\ \E f \in Unreadable : load_err = f.read.e
              /\ Loaded = Err(load_err)
        /\ \A n \in 1..Len(loads) :
              /\ ~loads[n].ok
              /\ \E f \in Unreadable : loads[n].e = f.read.e

\* The load had gathered the case of a well-formed file when it met the
\* unreadable one, and returned the error.
C40_Witness ==
    /\ DirListed
    /\ Unreadable # {}
    /\ WellFormed # {}
    /\ lpc = "err"
    /\ all_cases # <<>>
    /\ ~Loaded.ok

====
